---- MODULE Spec2Model ----
(***************************************************************************)
(* Verification model of the NuttyB lobby command generator.               *)
(*                                                                         *)
(* Strings are modelled by what the code observes of them: their length,   *)
(* the pieces a regular expression extracts, and the shape the packer      *)
(* classifies.  Sizes are in characters; the Lua sources are taken to be   *)
(* single-byte text, so Buffer.byteLength and String.length agree.         *)
(***************************************************************************)
EXTENDS Integers, Sequences, FiniteSets, TLC

\* ------------------------------------------------------------------------
\* Program constants
\* ------------------------------------------------------------------------
MAX_COMMAND_LENGTH == 51000
MAX_SLOTS_PER_TYPE == 10
\* constants.ts and the priority table: values as the specification relates
\* them (MAX_CHUNK_SIZE is MAX_COMMAND_LENGTH, MAX_SLOT_SIZE is at or below
\* it, TARGET_SLOT_SIZE is the soft budget below that).
MAX_CHUNK_SIZE == 51000
MAX_SLOT_SIZE == 50000
TARGET_SLOT_SIZE == 40000
DEFAULT_LUA_PRIORITY == 99
\* BASE64_OVERHEAD_MULTIPLIER = 1.4, kept as the fraction 14/10
OVERHEAD_NUM == 14
OVERHEAD_DEN == 10

\* ------------------------------------------------------------------------
\* Bounds of the model
\* ------------------------------------------------------------------------
MaxPackLen == 3          \* sources handed to the packer directly
SmallLen == 100          \* content length of a small Lua file
BigLen == 20000          \* content length of a large Lua file
HugeLen == 40000         \* content length of a Lua file too large for a slot

TweakTypes == {"tweakdefs", "tweakunits"}
NoSlot == [none |-> TRUE]

\* ------------------------------------------------------------------------
\* Generic helpers
\* ------------------------------------------------------------------------
RECURSIVE SumSeq(_)
SumSeq(s) == IF s = <<>> THEN 0 ELSE Head(s) + SumSeq(Tail(s))

RECURSIVE Flatten(_)
Flatten(ss) == IF ss = <<>> THEN <<>> ELSE Head(ss) \o Flatten(Tail(ss))

SeqsUpTo(S, n) == UNION {[1..k -> S] : k \in 0..n}

Range(s) == {s[i] : i \in 1..Len(s)}

RECURSIVE SortedSet(_)
SortedSet(S) ==
    IF S = {} THEN <<>>
    ELSE LET m == CHOOSE x \in S : \A y \in S : x <= y
         IN <<m>> \o SortedSet(S \ {m})

\* ------------------------------------------------------------------------
\* Paths and strings
\* ------------------------------------------------------------------------
\* A Lua path reference: optional leading '~', the bundle path, optional
\* trailing '{...}' placeholder.
PathLen(p) ==
    (IF p.tilde THEN 1 ELSE 0) + Len(p.base) + (IF p.suffix THEN 4 ELSE 0)

\* encode(): standard Base64 of the text, four characters per three bytes.
EncodedLen(n) == 4 * ((n + 2) \div 3)

\* decode(): the text of a code, three bytes per four characters.
DecodedLen(n) == (3 * n) \div 4

\* formatSlotName(type, index): no suffix for index 0, the decimal index
\* otherwise.
Digits(n) == IF n < 10 THEN <<n>> ELSE <<n \div 10, n % 10>>
formatSlotName(type, index) ==
    [base |-> type, suffix |-> IF index = 0 THEN <<>> ELSE Digits(index)]
SlotNameLen(name) == Len(name.base) + Len(name.suffix)

\* `!bset ${slotName} ${payload}`
BsetCommand(slotName, payloadLen) ==
    [kind |-> "bset", name |-> slotName, preset |-> FALSE,
     len |-> 6 + SlotNameLen(slotName) + 1 + payloadLen]

\* ------------------------------------------------------------------------
\* lua-utils and the slot packer
\* ------------------------------------------------------------------------
\* A LuaSource is [path, len, shape, desc, priority]: len is the length of
\* the trimmed content, shape what follows the header comments ("table",
\* "returnTable" or "exec"), desc the length of the first top comment line
\* with its dashes stripped (0 when the file has no header comment).

\* `-- Source: ${path}\n(function()\n${content}\nend)()`
wrapInIIFE(source) == 11 + PathLen(source.path) + 1 + 11 + 1 + source.len + 1 + 6

\* stripCommentPrefix(extractTopComments(content).split('\n')[0])
HeaderDescription(source) == source.desc

\* `-- ${descriptions.join(', ')}\n\n`, or nothing without descriptions
buildMergedHeader(sources) ==
    LET descs == SelectSeq([i \in 1..Len(sources) |-> HeaderDescription(sources[i])],
                           LAMBDA d : d > 0)
    IN IF Len(descs) > 0
       THEN 3 + SumSeq(descs) + 2 * (Len(descs) - 1) + 2
       ELSE 0

\* mergedHeader + currentSlot.join('\n\n')
SlotContentLen(sources) ==
    buildMergedHeader(sources)
    + SumSeq([i \in 1..Len(sources) |-> wrapInIIFE(sources[i])])
    + 2 * (Len(sources) - 1)

\* wrappedSize * BASE64_OVERHEAD_MULTIPLIER, scaled by OVERHEAD_DEN to stay
\* in the integers
EstimatedEncoded(source) == wrapInIIFE(source) * OVERHEAD_NUM

\* variant: one group for all sources, under the lowest priority
groupAllTogether(sources) ==
    [p \in {SortedSet({sources[i].priority : i \in 1..Len(sources)})[1]} |-> sources]

groupByPriority(sources) ==
    [p \in {sources[i].priority : i \in 1..Len(sources)} |->
        SelectSeq(sources, LAMBDA s : s.priority = p)]

\* One iteration of the loop of packPriorityGroup.
PackStep(acc, source) ==
    IF Len(acc.cur) > 0
       /\ acc.size + EstimatedEncoded(source) > TARGET_SLOT_SIZE * OVERHEAD_DEN
    THEN [slots |-> Append(acc.slots, acc.cur), cur |-> <<source>>,
          size |-> EstimatedEncoded(source)]
    ELSE [slots |-> acc.slots, cur |-> Append(acc.cur, source),
          size |-> acc.size + EstimatedEncoded(source)]

PackFinish(acc) ==
    IF Len(acc.cur) > 0 THEN Append(acc.slots, acc.cur) ELSE acc.slots

EmptyAcc == [slots |-> <<>>, cur |-> <<>>, size |-> 0]

RECURSIVE PackLoop(_, _)
PackLoop(acc, sources) ==
    IF sources = <<>> THEN acc
    ELSE PackLoop(PackStep(acc, Head(sources)), Tail(sources))

\* Greedy packing of one priority group; a slot is the sequence of the
\* sources wrapped into it.
packPriorityGroup(sources) == PackFinish(PackLoop(EmptyAcc, sources))

\* Slots of all priority groups, groups in ascending priority.
AllSlotContents(sources) ==
    LET groups == groupByPriority(sources)
        priorities == SortedSet(DOMAIN groups)
    IN Flatten([i \in 1..Len(priorities) |-> packPriorityGroup(groups[priorities[i]])])

\* packLuaSourcesIntoSlots(sources, slotType): the commands, or the error
\* raised.
SlotCommand(slotType, slotIndex, slot) ==
    BsetCommand(formatSlotName(slotType, slotIndex), EncodedLen(SlotContentLen(slot)))

\* variant: slots beyond the tenth are cut off instead of raising an error
packLuaSourcesIntoSlotsTruncating(sources, slotType) ==
    IF sources = <<>>
    THEN [ok |-> TRUE, error |-> "", commands |-> <<>>, slots |-> <<>>, used |-> 0]
    ELSE LET found == AllSlotContents(sources)
             all == IF Len(found) > MAX_SLOTS_PER_TYPE
                    THEN SubSeq(found, 1, MAX_SLOTS_PER_TYPE) ELSE found
             cmds == [i \in 1..Len(all) |-> SlotCommand(slotType, i - 1, all[i])]
         IN IF \E i \in 1..Len(cmds) : cmds[i].len > MAX_COMMAND_LENGTH
            THEN [ok |-> FALSE, error |-> "slotSize", commands |-> <<>>,
                  slots |-> <<>>, used |-> 0]
            ELSE [ok |-> TRUE, error |-> "", commands |-> cmds, slots |-> all,
                  used |-> Len(cmds)]

packLuaSourcesIntoSlots(sources, slotType) ==
    IF sources = <<>>
    THEN [ok |-> TRUE, error |-> "", commands |-> <<>>, slots |-> <<>>, used |-> 0]
    ELSE LET all == AllSlotContents(sources)
             cmds == [i \in 1..Len(all) |-> SlotCommand(slotType, i - 1, all[i])]
         IN IF Len(all) > MAX_SLOTS_PER_TYPE
            THEN [ok |-> FALSE, error |-> "slots", commands |-> <<>>,
                  slots |-> <<>>, used |-> 0]
            ELSE IF \E i \in 1..Len(cmds) : cmds[i].len > MAX_COMMAND_LENGTH
            THEN [ok |-> FALSE, error |-> "slotSize", commands |-> <<>>,
                  slots |-> <<>>, used |-> 0]
            ELSE [ok |-> TRUE, error |-> "", commands |-> cmds, slots |-> all,
                  used |-> Len(cmds)]

\* ------------------------------------------------------------------------
\* packer.ts: packLuaSources, the packer generateCommands calls.  It is the
\* slot packer above extended with the plain-table isolation rule for
\* tweakunits, and it returns structured commands.
\* ------------------------------------------------------------------------
\* variant: only a leading '{' is recognised, not 'return {'
isPlainTableBraceOnly(source) == source.shape = "table"

isPlainTable(source) == source.shape \in {"table", "returnTable"}

IsolatedStep(acc, source) ==
    [slots |-> Append(PackFinish(acc), <<source>>), cur |-> <<>>, size |-> 0]

RECURSIVE PackLoopIsolating(_, _, _)
PackLoopIsolating(acc, sources, slotType) ==
    IF sources = <<>> THEN acc
    ELSE LET s == Head(sources)
             next == IF slotType = "tweakunits" /\ isPlainTable(s)
                     THEN IsolatedStep(acc, s)
                     ELSE PackStep(acc, s)
         IN PackLoopIsolating(next, Tail(sources), slotType)

packGroupIsolating(sources, slotType) ==
    PackFinish(PackLoopIsolating(EmptyAcc, sources, slotType))

SlotInfo(index, slot) ==
    [index |-> index,
     sources |-> [i \in 1..Len(slot) |-> slot[i].path],
     contentLen |-> SlotContentLen(slot)]

packLuaSources(sources, slotType) ==
    IF sources = <<>>
    THEN [ok |-> TRUE, error |-> "", commands |-> <<>>, used |-> 0]
    ELSE LET groups == groupByPriority(sources)
             priorities == SortedSet(DOMAIN groups)
             all == Flatten([i \in 1..Len(priorities) |->
                        packGroupIsolating(groups[priorities[i]], slotType)])
             cmds == [i \in 1..Len(all) |->
                        [type |-> slotType,
                         command |-> SlotCommand(slotType, i - 1, all[i]),
                         slot |-> SlotInfo(i - 1, all[i])]]
         IN IF Len(all) > MAX_SLOTS_PER_TYPE
            THEN [ok |-> FALSE, error |-> "slots", commands |-> <<>>, used |-> 0]
            ELSE IF \E i \in 1..Len(cmds) : cmds[i].command.len > MAX_SLOT_SIZE
            THEN [ok |-> FALSE, error |-> "slotSize", commands |-> <<>>, used |-> 0]
            ELSE [ok |-> TRUE, error |-> "", commands |-> cmds, used |-> Len(cmds)]

\* ------------------------------------------------------------------------
\* command-generator.ts
\* ------------------------------------------------------------------------
\* The static priority table and the Lua bundle the model runs with.
Path(tilde, base, suffix) == [tilde |-> tilde, base |-> base, suffix |-> suffix]

LUA_PRIORITIES ==
    [b \in {"lua/main.lua", "lua/hp.lua", "lua/units.lua", "lua/big.lua"} |->
        CASE b = "lua/main.lua" -> 0
          [] b = "lua/hp.lua" -> 1
          [] b = "lua/units.lua" -> 1
          [] b = "lua/big.lua" -> 2]

LuaFile(len, shape, desc) == [len |-> len, shape |-> shape, desc |-> desc]

luaFileMap ==
    [b \in {"lua/main.lua", "lua/hp.lua", "lua/units.lua", "lua/big.lua",
            "lua/late.lua"} |->
        CASE b = "lua/main.lua" -> LuaFile(SmallLen, "exec", 12)
          [] b = "lua/hp.lua" -> LuaFile(SmallLen, "exec", 0)
          [] b = "lua/units.lua" -> LuaFile(SmallLen, "table", 12)
          [] b = "lua/big.lua" -> LuaFile(BigLen, "exec", 12)
          [] b = "lua/late.lua" -> LuaFile(SmallLen, "returnTable", 12)]

\* path.replace(/^~/, '').replace(/\{[^}]*\}$/, '')
CleanPath(path) == Path(FALSE, path.base, FALSE)

LookupPriority(clean) ==
    IF ~clean.tilde /\ ~clean.suffix /\ clean.base \in DOMAIN LUA_PRIORITIES
    THEN LUA_PRIORITIES[clean.base]
    ELSE DEFAULT_LUA_PRIORITY

\* variant: the trailing '{...}' placeholder is not stripped
getLuaPriorityKeepsSuffix(path) == LookupPriority(Path(FALSE, path.base, path.suffix))

getLuaPriority(path) == LookupPriority(CleanPath(path))

\* resolveLuaReference(path, luaFileMap).trim(): the bundle text of the
\* path, empty when the bundle has no such file.
resolveLuaReference(path) ==
    IF path.base \in DOMAIN luaFileMap
    THEN luaFileMap[path.base]
    ELSE LuaFile(0, "exec", 0)

resolveLuaSources(paths) ==
    [i \in 1..Len(paths) |->
        LET f == resolveLuaReference(paths[i])
        IN [path |-> paths[i], len |-> f.len, shape |-> f.shape, desc |-> f.desc,
            priority |-> getLuaPriority(paths[i])]]

\* sources.toSorted((a, b) => a.priority - b.priority): a stable sort
RECURSIVE InsertByPriority(_, _)
InsertByPriority(x, sorted) ==
    IF sorted = <<>> THEN <<x>>
    ELSE IF Head(sorted).priority <= x.priority
         THEN <<Head(sorted)>> \o InsertByPriority(x, Tail(sorted))
         ELSE <<x>> \o sorted

RECURSIVE SortLoop(_, _)
SortLoop(sorted, rest) ==
    IF rest = <<>> THEN sorted
    ELSE SortLoop(InsertByPriority(Head(rest), sorted), Tail(rest))

sortLua(sources) == SortLoop(<<>>, sources)

\* A custom tweak is [id, type, codeLen, decodable, enabled, descLen]:
\* codeLen is the length of its code string, decodable whether decode()
\* accepts the code, descLen the length of its description.

\* cmd.match(/!bset\s+(tweakdefs|tweakunits)(\d?)\s/)
SlotRegexMatches(cmd) ==
    cmd.kind = "bset" /\ cmd.name.base \in TweakTypes /\ Len(cmd.name.suffix) <= 1

\* variant: the digit of the slot name is ignored
SlotRegexNumZero(cmd) == 0

SlotRegexNum(cmd) == IF cmd.name.suffix = <<>> THEN 0 ELSE cmd.name.suffix[1]

ParseUsedSlots(existingCommands) ==
    [t \in TweakTypes |->
        {SlotRegexNum(existingCommands[i]) :
            i \in {j \in 1..Len(existingCommands) :
                       SlotRegexMatches(existingCommands[j])
                       /\ existingCommands[j].name.base = t}}]

NoIndex == -1

\* variant: the search runs over 1..10
FirstFreeSlotUpToTen(used) ==
    IF \E i \in 1..10 : i \notin used
    THEN CHOOSE i \in 1..10 : i \notin used /\ \A j \in 1..(i - 1) : j \in used
    ELSE NoIndex

\* for (let i = 1; i <= 9; i++) if (!used.has(i)) { slot = i; break; }
FirstFreeSlot(used) ==
    IF \E i \in 1..9 : i \notin used
    THEN CHOOSE i \in 1..9 : i \notin used /\ \A j \in 1..(i - 1) : j \in used
    ELSE NoIndex

\* variant: the code of the tweak is encoded once more
CustomCommandReencodes(tweak, slot) ==
    BsetCommand(formatSlotName(tweak.type, slot), EncodedLen(tweak.codeLen))

\* `!bset ${slotName} ${tweak.code}`
CustomCommand(tweak, slot) == BsetCommand(formatSlotName(tweak.type, slot), tweak.codeLen)

\* variant: an oversized tweak is not detected
AllocStepNoSizeCheck(acc, tweak) ==
    LET slot == FirstFreeSlot(acc.usedSlots[tweak.type])
        used1 == [acc.usedSlots EXCEPT ![tweak.type] = @ \cup {slot}]
        allocated1 == [acc.allocated EXCEPT ![tweak.type] = @ + 1]
        command == CustomCommand(tweak, slot)
    IN IF slot = NoIndex
       THEN [acc EXCEPT !.dropped = Append(@, tweak)]
       ELSE IF FALSE
       THEN [acc EXCEPT !.dropped = Append(@, tweak),
                        !.usedSlots = [used1 EXCEPT ![tweak.type] = @ \ {slot}],
                        !.allocated = [allocated1 EXCEPT ![tweak.type] = @ - 1]]
       ELSE [acc EXCEPT !.usedSlots = used1,
                        !.allocated = allocated1,
                        !.allocations = Append(@, [tweak |-> tweak, slotIndex |-> slot,
                                                   command |-> command])]

\* variant: the slot reserved for a dropped tweak is not freed
AllocStepKeepsSlot(acc, tweak) ==
    LET slot == FirstFreeSlot(acc.usedSlots[tweak.type])
        used1 == [acc.usedSlots EXCEPT ![tweak.type] = @ \cup {slot}]
        allocated1 == [acc.allocated EXCEPT ![tweak.type] = @ + 1]
        command == CustomCommand(tweak, slot)
    IN IF slot = NoIndex
       THEN [acc EXCEPT !.dropped = Append(@, tweak)]
       ELSE IF command.len > MAX_SLOT_SIZE
       THEN [acc EXCEPT !.dropped = Append(@, tweak),
                        !.usedSlots = used1,
                        !.allocated = [allocated1 EXCEPT ![tweak.type] = @ - 1]]
       ELSE [acc EXCEPT !.usedSlots = used1,
                        !.allocated = allocated1,
                        !.allocations = Append(@, [tweak |-> tweak, slotIndex |-> slot,
                                                   command |-> command])]

\* variant: the count reserved for a dropped tweak is not released
AllocStepKeepsCount(acc, tweak) ==
    LET slot == FirstFreeSlot(acc.usedSlots[tweak.type])
        used1 == [acc.usedSlots EXCEPT ![tweak.type] = @ \cup {slot}]
        allocated1 == [acc.allocated EXCEPT ![tweak.type] = @ + 1]
        command == CustomCommand(tweak, slot)
    IN IF slot = NoIndex
       THEN [acc EXCEPT !.dropped = Append(@, tweak)]
       ELSE IF command.len > MAX_SLOT_SIZE
       THEN [acc EXCEPT !.dropped = Append(@, tweak),
                        !.usedSlots = [used1 EXCEPT ![tweak.type] = @ \ {slot}],
                        !.allocated = allocated1]
       ELSE [acc EXCEPT !.usedSlots = used1,
                        !.allocated = allocated1,
                        !.allocations = Append(@, [tweak |-> tweak, slotIndex |-> slot,
                                                   command |-> command])]

\* One iteration of the allocation loop.
AllocStep(acc, tweak) ==
    LET slot == FirstFreeSlot(acc.usedSlots[tweak.type])
        used1 == [acc.usedSlots EXCEPT ![tweak.type] = @ \cup {slot}]
        allocated1 == [acc.allocated EXCEPT ![tweak.type] = @ + 1]
        command == CustomCommand(tweak, slot)
    IN IF slot = NoIndex
       THEN [acc EXCEPT !.dropped = Append(@, tweak)]
       ELSE IF command.len > MAX_SLOT_SIZE
       THEN [acc EXCEPT !.dropped = Append(@, tweak),
                        !.usedSlots = [used1 EXCEPT ![tweak.type] = @ \ {slot}],
                        !.allocated = [allocated1 EXCEPT ![tweak.type] = @ - 1]]
       ELSE [acc EXCEPT !.usedSlots = used1,
                        !.allocated = allocated1,
                        !.allocations = Append(@, [tweak |-> tweak, slotIndex |-> slot,
                                                   command |-> command])]

RECURSIVE AllocLoop(_, _)
AllocLoop(acc, tweaks) ==
    IF tweaks = <<>> THEN acc
    ELSE AllocLoop(AllocStep(acc, Head(tweaks)), Tail(tweaks))

NoAllocation ==
    [dropped |-> <<>>, allocated |-> [t \in TweakTypes |-> 0], allocations |-> <<>>]

allocateCustomTweaks(existingCommands, customTweaks) ==
    IF customTweaks = <<>>
    THEN NoAllocation
    ELSE LET acc == AllocLoop([usedSlots |-> ParseUsedSlots(existingCommands),
                               dropped |-> <<>>,
                               allocated |-> [t \in TweakTypes |-> 0],
                               allocations |-> <<>>], customTweaks)
         IN [dropped |-> acc.dropped, allocated |-> acc.allocated,
             allocations |-> acc.allocations]

\* variant: the command that opens a new chunk is left out
ChunkStepLosesCommand(acc, cmd) ==
    LET separatorLength == IF Len(acc.currentChunk) > 0 THEN 1 ELSE 0
        cmdSize == cmd.command.len + separatorLength
    IN IF acc.currentSize + cmdSize > MAX_CHUNK_SIZE /\ Len(acc.currentChunk) > 0
       THEN [chunks |-> Append(acc.chunks, acc.currentChunk),
             currentChunk |-> <<>>,
             currentSize |-> 0]
       ELSE [chunks |-> acc.chunks,
             currentChunk |-> Append(acc.currentChunk, cmd),
             currentSize |-> acc.currentSize + cmdSize]

\* variant: a new chunk starts with size 0
ChunkStepForgetsSize(acc, cmd) ==
    LET separatorLength == IF Len(acc.currentChunk) > 0 THEN 1 ELSE 0
        cmdSize == cmd.command.len + separatorLength
    IN IF acc.currentSize + cmdSize > MAX_CHUNK_SIZE /\ Len(acc.currentChunk) > 0
       THEN [chunks |-> Append(acc.chunks, acc.currentChunk),
             currentChunk |-> <<cmd>>,
             currentSize |-> 0]
       ELSE [chunks |-> acc.chunks,
             currentChunk |-> Append(acc.currentChunk, cmd),
             currentSize |-> acc.currentSize + cmdSize]

\* One iteration of the loop of groupIntoChunks (without its size check).
ChunkStep(acc, cmd) ==
    LET separatorLength == IF Len(acc.currentChunk) > 0 THEN 1 ELSE 0
        cmdSize == cmd.command.len + separatorLength
    IN IF acc.currentSize + cmdSize > MAX_CHUNK_SIZE /\ Len(acc.currentChunk) > 0
       THEN [chunks |-> Append(acc.chunks, acc.currentChunk),
             currentChunk |-> <<cmd>>,
             currentSize |-> cmd.command.len]
       ELSE [chunks |-> acc.chunks,
             currentChunk |-> Append(acc.currentChunk, cmd),
             currentSize |-> acc.currentSize + cmdSize]

RECURSIVE ChunkLoop(_, _)
ChunkLoop(acc, commands) ==
    IF commands = <<>> THEN acc
    ELSE ChunkLoop(ChunkStep(acc, Head(commands)), Tail(commands))

groupIntoChunks(commands) ==
    IF \E i \in 1..Len(commands) : commands[i].command.len > MAX_SLOT_SIZE
    THEN [ok |-> FALSE, chunks |-> <<>>]
    ELSE LET acc == ChunkLoop([chunks |-> <<>>, currentChunk |-> <<>>,
                               currentSize |-> 0], commands)
         IN [ok |-> TRUE,
             chunks |-> IF Len(acc.currentChunk) > 0
                        THEN Append(acc.chunks, acc.currentChunk)
                        ELSE acc.chunks]

\* variant: the slot record is left out
CustomCommandObjectNoSlot(allocation) ==
    [type |-> allocation.tweak.type,
     command |-> allocation.command,
     slot |-> NoSlot]

\* `-- Custom Tweak: ${description}\n${decoded}`
CustomContentLen(tweak) == 17 + tweak.descLen + 1 + DecodedLen(tweak.codeLen)

\* Step 5b of generateCommands: an allocation as a Command object.
CustomCommandObject(allocation) ==
    [type |-> allocation.tweak.type,
     command |-> allocation.command,
     slot |-> [index |-> allocation.slotIndex,
               sources |-> <<[custom |-> allocation.tweak.id]>>,
               contentLen |-> CustomContentLen(allocation.tweak)]]

\* A plain command as a Command object (no slot property).
PlainCommandObject(cmd) == [type |-> "command", command |-> cmd, slot |-> NoSlot]

\* variant: '!preset' commands first, the others in reverse order
SortPresetFirstUnstable(commands) ==
    LET others == SelectSeq(commands, LAMBDA c : ~c.preset)
    IN SelectSeq(commands, LAMBDA c : c.preset)
       \o [i \in 1..Len(others) |-> others[Len(others) + 1 - i]]

\* interpolatedCommands.toSorted(...): '!preset' commands first, stable
SortPresetFirst(commands) ==
    SelectSeq(commands, LAMBDA c : c.preset) \o SelectSeq(commands, LAMBDA c : ~c.preset)

\* Step 6 of generateCommands.
BuildAllCommands(plain, defsResult, unitsResult, allocation) ==
    LET sorted == SortPresetFirst(plain)
    IN [i \in 1..Len(sorted) |-> PlainCommandObject(sorted[i])]
       \o defsResult.commands
       \o unitsResult.commands
       \o [i \in 1..Len(allocation.allocations) |->
              CustomCommandObject(allocation.allocations[i])]

\* ------------------------------------------------------------------------
\* generateCommandSections: the flat-text entry point
\* ------------------------------------------------------------------------
\* One iteration of the allocation loop of the flat-text entry point: a
\* tweak that finds a free slot always gets its command.
SectionsAllocStep(acc, tweak) ==
    LET slot == FirstFreeSlot(acc.usedSlots[tweak.type])
    IN IF slot = NoIndex
       THEN [acc EXCEPT !.dropped = Append(@, tweak)]
       ELSE [acc EXCEPT !.usedSlots[tweak.type] = @ \cup {slot},
                        !.allocated[tweak.type] = @ + 1,
                        !.commands = Append(@, CustomCommand(tweak, slot))]

RECURSIVE SectionsAllocLoop(_, _)
SectionsAllocLoop(acc, tweaks) ==
    IF tweaks = <<>> THEN acc
    ELSE SectionsAllocLoop(SectionsAllocStep(acc, Head(tweaks)), Tail(tweaks))

SectionsAllocateCustomTweaks(existingCommands, customTweaks) ==
    IF customTweaks = <<>>
    THEN [commands |-> <<>>, dropped |-> <<>>, allocated |-> [t \in TweakTypes |-> 0]]
    ELSE LET acc == SectionsAllocLoop([usedSlots |-> ParseUsedSlots(existingCommands),
                                       commands |-> <<>>,
                                       dropped |-> <<>>,
                                       allocated |-> [t \in TweakTypes |-> 0]],
                                      customTweaks)
         IN [commands |-> acc.commands, dropped |-> acc.dropped,
             allocated |-> acc.allocated]

\* The commands in order, cut into sections as groupIntoChunks cuts them
\* into chunks; a section is the sequence of the commands its text joins.
packCommandsIntoSections(commands) ==
    LET g == groupIntoChunks([i \in 1..Len(commands) |-> [command |-> commands[i]]])
    IN [ok |-> g.ok,
        sections |-> [i \in 1..Len(g.chunks) |->
                         [j \in 1..Len(g.chunks[i]) |-> g.chunks[i][j].command]]]

CommandStrings(packed) == [i \in 1..Len(packed.commands) |-> packed.commands[i].command]

generateCommandSections(commands, defs, units, tweaks) ==
    LET defsResult == packLuaSources(sortLua(resolveLuaSources(defs)), "tweakdefs")
        unitsResult == packLuaSources(sortLua(resolveLuaSources(units)), "tweakunits")
        bsetCommands == CommandStrings(defsResult) \o CommandStrings(unitsResult)
        allocation == SectionsAllocateCustomTweaks(
                          bsetCommands, SelectSeq(tweaks, LAMBDA t : t.enabled))
        all == SortPresetFirst(commands) \o bsetCommands \o allocation.commands
        packed == packCommandsIntoSections(all)
    IN IF ~defsResult.ok THEN [status |-> "error", cause |-> defsResult.error]
       ELSE IF ~unitsResult.ok THEN [status |-> "error", cause |-> unitsResult.error]
       ELSE IF ~packed.ok THEN [status |-> "error", cause |-> "commandSize"]
       ELSE [status |-> "ok",
             sections |-> packed.sections,
             slotUsage |->
               [tweakdefs |-> defsResult.used + allocation.allocated["tweakdefs"],
                tweakunits |-> unitsResult.used + allocation.allocated["tweakunits"]],
             droppedCustomTweaks |-> allocation.dropped]

\* ------------------------------------------------------------------------
\* command-template: the template engine
\* ------------------------------------------------------------------------
\* Template text and values are sequences of one-character strings.  A
\* context maps variable names to values; Undefined is what a lookup of an
\* absent name gives.
\* \w: letters, digits and the underscore
WordChars ==
    {"a", "b", "c", "d", "e", "f", "g", "h", "i", "j", "k", "l", "m",
     "n", "o", "p", "q", "r", "s", "t", "u", "v", "w", "x", "y", "z",
     "A", "B", "C", "D", "E", "F", "G", "H", "I", "J", "K", "L", "M",
     "N", "O", "P", "Q", "R", "S", "T", "U", "V", "W", "X", "Y", "Z",
     "0", "1", "2", "3", "4", "5", "6", "7", "8", "9", "_"}
Undefined == <<"undefined">>

Lookup(context, name) ==
    IF name \in DOMAIN context THEN context[name] ELSE Undefined

\* /\$(\w+)\$/ matched at position i: the position of the closing '$', or 0
VariableMatchEnd(s, i) ==
    IF i + 2 <= Len(s) /\ s[i] = "$"
       /\ \E j \in (i + 2)..Len(s) :
             s[j] = "$" /\ \A k \in (i + 1)..(j - 1) : s[k] \in WordChars
    THEN CHOOSE j \in (i + 2)..Len(s) :
            s[j] = "$" /\ \A k \in (i + 1)..(j - 1) : s[k] \in WordChars
    ELSE 0

\* VARIABLE_PATTERN.test(command)
isCommandTemplate(s) == \E i \in 1..Len(s) : VariableMatchEnd(s, i) > 0

\* [...content.matchAll(VARIABLE_REPLACE_PATTERN)].map((m) => m[1]), from
\* position i on
RECURSIVE VariablesFrom(_, _)
VariablesFrom(s, i) ==
    IF i > Len(s) THEN <<>>
    ELSE LET j == VariableMatchEnd(s, i)
         IN IF j > 0
            THEN <<SubSeq(s, i + 1, j - 1)>> \o VariablesFrom(s, j + 1)
            ELSE VariablesFrom(s, i + 1)

\* s.replaceAll(VARIABLE_REPLACE_PATTERN, (_m, varName) => context[varName] ?? ''),
\* from position i on
RECURSIVE ReplaceVariablesFrom(_, _, _)
ReplaceVariablesFrom(s, i, context) ==
    IF i > Len(s) THEN <<>>
    ELSE LET j == VariableMatchEnd(s, i)
         IN IF j > 0
            THEN LET value == Lookup(context, SubSeq(s, i + 1, j - 1))
                 IN (IF value = Undefined THEN <<>> ELSE value)
                    \o ReplaceVariablesFrom(s, j + 1, context)
            ELSE <<s[i]>> \o ReplaceVariablesFrom(s, i + 1, context)

IsPresent(context, name) ==
    Lookup(context, name) # Undefined /\ Lookup(context, name) # <<>>

\* /\$\?(.*?)\?\$/ matched at position i: the position of the closing
\* '?$', or 0
OptionalMatchEnd(s, i) ==
    IF i + 3 <= Len(s) /\ s[i] = "$" /\ s[i + 1] = "?"
       /\ \E j \in (i + 2)..(Len(s) - 1) : s[j] = "?" /\ s[j + 1] = "$"
    THEN CHOOSE j \in (i + 2)..(Len(s) - 1) :
            /\ s[j] = "?" /\ s[j + 1] = "$"
            /\ \A k \in (i + 2)..(j - 1) : ~(s[k] = "?" /\ s[k + 1] = "$")
    ELSE 0

\* the callback of processOptionalSections on the content of one section
OptionalSectionValue(content, context) ==
    LET variables == VariablesFrom(content, 1)
        allPresent == \A k \in 1..Len(variables) : IsPresent(context, variables[k])
    IN IF allPresent THEN ReplaceVariablesFrom(content, 1, context) ELSE <<>>

RECURSIVE ProcessOptionalFrom(_, _, _)
ProcessOptionalFrom(s, i, context) ==
    IF i > Len(s) THEN <<>>
    ELSE LET j == OptionalMatchEnd(s, i)
         IN IF j > 0
            THEN OptionalSectionValue(SubSeq(s, i + 2, j - 1), context)
                 \o ProcessOptionalFrom(s, j + 2, context)
            ELSE <<s[i]>> \o ProcessOptionalFrom(s, i + 1, context)

processOptionalSections(template, context) == ProcessOptionalFrom(template, 1, context)

\* The result of an interpolation: the text, or the error raised with the
\* variable it names.
Text(t) == [ok |-> TRUE, text |-> t, missing |-> <<>>]
MissingVariable(name) == [ok |-> FALSE, text |-> <<>>, missing |-> name]

\* the callback throws at the first placeholder without a value
replaceRequiredVariables(template, context) ==
    LET variables == VariablesFrom(template, 1)
        bad == {k \in 1..Len(variables) : ~IsPresent(context, variables[k])}
    IN IF bad # {}
       THEN MissingVariable(variables[CHOOSE k \in bad : \A m \in bad : k <= m])
       ELSE Text(ReplaceVariablesFrom(template, 1, context))

\* result.replaceAll(/\s{2,}/g, ' '): a run of spaces becomes one space
RECURSIVE CollapseSpaces(_)
CollapseSpaces(s) ==
    IF Len(s) < 2 THEN s
    ELSE IF s[1] = " " /\ s[2] = " " THEN CollapseSpaces(Tail(s))
    ELSE <<s[1]>> \o CollapseSpaces(Tail(s))

\* String.prototype.trim
RECURSIVE TrimStart(_)
TrimStart(s) == IF s # <<>> /\ s[1] = " " THEN TrimStart(Tail(s)) ELSE s
RECURSIVE TrimEnd(_)
TrimEnd(s) ==
    IF s # <<>> /\ s[Len(s)] = " " THEN TrimEnd(SubSeq(s, 1, Len(s) - 1)) ELSE s
Trim(s) == TrimEnd(TrimStart(s))

NormalizeWhitespace(s) == Trim(CollapseSpaces(s))

interpolateCommandTemplate(template, context) ==
    LET result == replaceRequiredVariables(processOptionalSections(template, context),
                                           context)
    IN IF result.ok THEN Text(NormalizeWhitespace(result.text)) ELSE result

\* buildTemplateContext(config); String(x) of a number or a boolean is
\* held in the configuration as its text
TrimmedOrEmpty(name) == IF name = Undefined THEN <<>> ELSE Trim(name)

buildTemplateContext(config) ==
    (<<"p", "r", "e", "s", "e", "t", "D", "i", "f", "f", "i", "c", "u", "l", "t", "y">> :> config.presetDifficulty)
    @@ (<<"l", "o", "b", "b", "y", "N", "a", "m", "e">> :> TrimmedOrEmpty(config.lobbyName))
    @@ (<<"e", "x", "t", "r", "a", "s">> :> config.challenges)
    @@ (<<"g", "a", "m", "e", "M", "a", "p">> :> config.gameMap)
    @@ (<<"s", "t", "a", "r", "t">> :> config.start)
    @@ (<<"i", "s", "M", "e", "g", "a", "N", "u", "k", "e">> :> config.isMegaNuke)
    @@ (<<"i", "n", "c", "o", "m", "e", "M", "u", "l", "t">> :> config.incomeMult)
    @@ (<<"b", "u", "i", "l", "d", "D", "i", "s", "t", "M", "u", "l", "t">> :> config.buildDistMult)
    @@ (<<"b", "u", "i", "l", "d", "P", "o", "w", "e", "r", "M", "u", "l", "t">> :> config.buildPowerMult)
    @@ (<<"q", "u", "e", "e", "n", "C", "o", "u", "n", "t">> :> config.queenCount)

\* buildRenameCommand(configuration)
RenamePrefix ==
    <<"!", "r", "e", "n", "a", "m", "e", " ", "C", "o", "m", "m", "u", "n",
      "i", "t", "y", " ", "N", "u", "t", "t", "y", "B", " ", "[">>
buildRenameCommand(config) ==
    LET customName == IF config.lobbyName = Undefined THEN Undefined
                      ELSE Trim(config.lobbyName)
        command == RenamePrefix \o config.presetDifficulty \o <<"]">>
    IN IF customName # Undefined /\ customName # <<>>
       THEN command \o <<" ", "[">> \o customName \o <<"]">>
       ELSE command

\* A template as its author composes it: text, '$name$' placeholders and
\* '$?...?$' sections of text and placeholders.
TextToken(t) == [kind |-> "text", text |-> t]
VarToken(name) == [kind |-> "var", name |-> name]
OptionalToken(inner) == [kind |-> "optional", inner |-> inner]

RECURSIVE RenderTokens(_)
RenderTokens(tokens) ==
    IF tokens = <<>> THEN <<>>
    ELSE LET t == Head(tokens)
         IN (CASE t.kind = "text" -> t.text
               [] t.kind = "var" -> <<"$">> \o t.name \o <<"$">>
               [] t.kind = "optional" ->
                     <<"$", "?">> \o RenderTokens(t.inner) \o <<"?", "$">>)
            \o RenderTokens(Tail(tokens))

\* '!rename Community NuttyB [$presetDifficulty$] $?[$lobbyName$]?$'
RenameTemplate ==
    <<TextToken(RenamePrefix), VarToken(<<"p", "r", "e", "s", "e", "t", "D", "i", "f", "f", "i", "c", "u", "l", "t", "y">>), TextToken(<<"]", " ">>),
      OptionalToken(<<TextToken(<<"[">>), VarToken(<<"l", "o", "b", "b", "y", "N", "a", "m", "e">>), TextToken(<<"]">>)>>)>>

\* ------------------------------------------------------------------------
\* State
\* ------------------------------------------------------------------------
VARIABLES
    pc,                 \* position of generateCommands
    interpolatedCommands, defsPaths, unitsPaths, customTweaks,   \* its inputs
    tweakdefsResult, tweakunitsResult, allocationResult, allCommands,
    result,             \* the PackingResult returned, or the error raised
    sectionsResult,     \* what generateCommandSections returns for the same inputs
    lobbySections,      \* what buildLobbySections returns for the same inputs
    pkPc, pkSources, pkType, pkResult, pkSlots,  \* a direct call of the packer
    storedTweaks, storedEnabledIds, now,         \* the custom-tweaks store
    storedRaw, isLoaded, lastCall,               \* its load and its last call
    tplPc, tplTokens, tplContext, tplResult,     \* a call of the template engine
    configuration, renameCommand,                \* the rename command of a configuration
    luaFolderFiles, slotContents,                \* the lists the editor shows
    selectedFile, selectedSlot,                  \* its selection state
    pendingEffects                               \* its effects still to run after a render

genVars == <<pc, interpolatedCommands, defsPaths, unitsPaths, customTweaks,
             tweakdefsResult, tweakunitsResult, allocationResult, allCommands,
             result, sectionsResult, lobbySections>>
pkVars == <<pkPc, pkSources, pkType, pkResult, pkSlots>>
storeVars == <<storedTweaks, storedEnabledIds, now, storedRaw, isLoaded, lastCall>>
tplVars == <<tplPc, tplTokens, tplContext, tplResult, configuration, renameCommand>>
edVars == <<luaFolderFiles, slotContents, selectedFile, selectedSlot, pendingEffects>>
vars == <<genVars, pkVars, storeVars, tplVars, edVars>>

\* ------------------------------------------------------------------------
\* Inputs
\* ------------------------------------------------------------------------
MaxPaths == 2            \* mapped Lua paths per type, varied input
MaxFill == 11            \* mapped Lua paths per type, large files
MaxHead == 2             \* custom tweaks of varied kind
MaxTweaks == 10          \* further custom tweaks of one kind
OversizedLen == 51000    \* code length of an oversized custom tweak
MaxMixed == 2            \* large files per type and custom tweaks, mixed input

DefsPathSet ==
    {Path(TRUE, "lua/main.lua", FALSE), Path(TRUE, "lua/hp.lua", TRUE),
     Path(TRUE, "lua/missing.lua", FALSE)}
UnitsPathSet ==
    {Path(TRUE, "lua/units.lua", FALSE), Path(TRUE, "lua/hp.lua", TRUE),
     Path(TRUE, "lua/late.lua", FALSE)}
BigPath == Path(TRUE, "lua/big.lua", FALSE)

Tweak(type, codeLen, decodable, enabled) ==
    [id |-> 0, type |-> type, codeLen |-> codeLen, decodable |-> decodable,
     enabled |-> enabled, descLen |-> 5]

FitTweaks == {Tweak(t, SmallLen, TRUE, TRUE) : t \in TweakTypes}
OversizedTweak == Tweak("tweakdefs", OversizedLen, TRUE, TRUE)
TweakKinds ==
    FitTweaks \cup {OversizedTweak,
                    Tweak("tweakdefs", SmallLen, FALSE, TRUE),
                    Tweak("tweakunits", SmallLen, TRUE, FALSE)}

\* ids are distinct: the position in the stored list
WithIds(tweaks) == [i \in 1..Len(tweaks) |-> [tweaks[i] EXCEPT !.id = i]]

Copies(x, n) == [i \in 1..n |-> x]

PlainCommand(preset, len) ==
    [kind |-> "plain", name |-> NoSlot, preset |-> preset, len |-> len]

PlainInputs ==
    {<<>>,
     <<PlainCommand(FALSE, 12), PlainCommand(TRUE, 12), PlainCommand(FALSE, 40)>>,
     <<PlainCommand(TRUE, 12), PlainCommand(FALSE, MAX_SLOT_SIZE + 1)>>}

NotRun == [ok |-> FALSE, error |-> "none", commands |-> <<>>, used |-> 0]
NoResult == [status |-> "none"]

GenIdle ==
    /\ pc = "idle"
    /\ interpolatedCommands = <<>> /\ defsPaths = <<>> /\ unitsPaths = <<>>
    /\ customTweaks = <<>>
    /\ tweakdefsResult = NotRun /\ tweakunitsResult = NotRun
    /\ allocationResult = NoAllocation /\ allCommands = <<>>
    /\ result = NoResult /\ sectionsResult = NoResult /\ lobbySections = NoResult

PkIdle ==
    /\ pkPc = "idle" /\ pkSources = <<>> /\ pkType = "tweakdefs"
    /\ pkResult = NotRun /\ pkSlots = NotRun

\* What local storage holds under the key of the store: nothing, a value
\* that is not an object, an object, or the data the store wrote itself.
Array(items) == [isArray |-> TRUE, items |-> items]
NotArray == [isArray |-> FALSE, items |-> <<>>]
NoData == [kind |-> "absent", tweaks |-> NotArray, enabledIds |-> NotArray]
Written == [kind |-> "written", tweaks |-> NotArray, enabledIds |-> NotArray]

\* the last callback of the context that ran, the id it was given and the
\* index it found
Call(op, id, index) == [op |-> op, id |-> id, index |-> index]
NoCall == Call("none", 0, 0)

StoreIdle ==
    /\ storedTweaks = <<>> /\ storedEnabledIds = <<>> /\ now = 0
    /\ storedRaw = NoData /\ isLoaded = FALSE /\ lastCall = NoCall

NotInterpolated == [ok |-> FALSE, text |-> <<>>, missing |-> <<"none">>]
NoConfiguration == [none |-> TRUE]
NotBuilt == <<"none">>
TplIdle ==
    /\ tplPc = "idle" /\ tplTokens = <<>> /\ tplContext = <<>>
    /\ tplResult = NotInterpolated
    /\ configuration = NoConfiguration /\ renameCommand = NotBuilt

\* useState<string | null>(null)
NoSelection == "null"
EdIdle ==
    /\ luaFolderFiles = <<>> /\ slotContents = <<>>
    /\ selectedFile = NoSelection /\ selectedSlot = NoSelection
    /\ pendingEffects = {}

GenStart ==
    /\ pc = "start"
    /\ tweakdefsResult = NotRun /\ tweakunitsResult = NotRun
    /\ allocationResult = NoAllocation /\ allCommands = <<>>
    /\ result = NoResult /\ sectionsResult = NoResult /\ lobbySections = NoResult

\* Varied content: few paths of every kind, few custom tweaks.
InitContent ==
    /\ interpolatedCommands \in PlainInputs
    /\ defsPaths \in SeqsUpTo(DefsPathSet, MaxPaths)
    /\ unitsPaths \in SeqsUpTo(UnitsPathSet, MaxPaths)
    /\ \E ts \in SeqsUpTo(TweakKinds, 1) : customTweaks = WithIds(ts)

\* Many slots: large files of one type, many custom tweaks.
InitFill ==
    /\ interpolatedCommands = <<PlainCommand(TRUE, 12)>>
    /\ \E t \in TweakTypes, n \in 0..MaxFill :
          /\ defsPaths = IF t = "tweakdefs" THEN Copies(BigPath, n) ELSE <<>>
          /\ unitsPaths = IF t = "tweakunits" THEN Copies(BigPath, n) ELSE <<>>
    /\ \E head \in SeqsUpTo(FitTweaks \cup {OversizedTweak}, MaxHead),
          f \in FitTweaks, k \in 0..MaxTweaks :
          customTweaks = WithIds(head \o Copies(f, k))

\* Mixed output: plain commands, large and small files of both types and
\* several custom tweaks, so that every kind of command meets a chunk border.
MixedPlain ==
    <<PlainCommand(FALSE, 12), PlainCommand(TRUE, 13), PlainCommand(FALSE, 40),
      PlainCommand(TRUE, 14), PlainCommand(FALSE, 12)>>
InitMixed ==
    /\ interpolatedCommands \in {MixedPlain, <<PlainCommand(FALSE, 40)>>}
    /\ \E n \in 1..MaxMixed, p \in DefsPathSet : defsPaths = Copies(BigPath, n) \o <<p>>
    /\ \E n \in 1..MaxMixed, p \in UnitsPathSet : unitsPaths = <<p>> \o Copies(BigPath, n)
    /\ \E ts \in SeqsUpTo(FitTweaks, MaxMixed) : customTweaks = WithIds(ts)

Init == GenStart /\ PkIdle /\ StoreIdle /\ TplIdle /\ EdIdle /\ (InitContent \/ InitFill \/ InitMixed)

\* ------------------------------------------------------------------------
\* generateCommands, step by step
\* ------------------------------------------------------------------------
Fail(cause) ==
    /\ pc' = "error"
    /\ result' = [status |-> "error", cause |-> cause]

\* 3. Resolve and pack tweakdefs
PackTweakdefs ==
    /\ pc = "start"
    /\ LET r == packLuaSources(sortLua(resolveLuaSources(defsPaths)), "tweakdefs")
       IN /\ tweakdefsResult' = r
          /\ IF r.ok THEN pc' = "packedDefs" /\ result' = result
                     ELSE Fail(r.error)
    /\ UNCHANGED <<interpolatedCommands, defsPaths, unitsPaths, customTweaks,
                   tweakunitsResult, allocationResult, allCommands, sectionsResult, lobbySections, pkVars, storeVars, tplVars, edVars>>

\* 4. Resolve and pack tweakunits
PackTweakunits ==
    /\ pc = "packedDefs"
    /\ LET r == packLuaSources(sortLua(resolveLuaSources(unitsPaths)), "tweakunits")
       IN /\ tweakunitsResult' = r
          /\ IF r.ok THEN pc' = "packedUnits" /\ result' = result
                     ELSE Fail(r.error)
    /\ UNCHANGED <<interpolatedCommands, defsPaths, unitsPaths, customTweaks,
                   tweakdefsResult, allocationResult, allCommands, sectionsResult, lobbySections, pkVars, storeVars, tplVars, edVars>>

ExistingBsetCommands ==
    [i \in 1..Len(tweakdefsResult.commands) |-> tweakdefsResult.commands[i].command]
    \o [i \in 1..Len(tweakunitsResult.commands) |-> tweakunitsResult.commands[i].command]

\* 5. Allocate custom tweaks
AllocateCustomTweaks ==
    /\ pc = "packedUnits"
    /\ allocationResult' =
          allocateCustomTweaks(ExistingBsetCommands,
                               SelectSeq(customTweaks, LAMBDA t : t.enabled))
    /\ pc' = "allocated"
    /\ UNCHANGED <<interpolatedCommands, defsPaths, unitsPaths, customTweaks,
                   tweakdefsResult, tweakunitsResult, allCommands, result, sectionsResult, lobbySections, pkVars, storeVars, tplVars, edVars>>

\* 5b and 6. decode() of an allocated tweak's code may throw
BuildCommands ==
    /\ pc = "allocated"
    /\ IF \E i \in 1..Len(allocationResult.allocations) :
             ~allocationResult.allocations[i].tweak.decodable
       THEN allCommands' = allCommands /\ Fail("decode")
       ELSE /\ allCommands' = BuildAllCommands(interpolatedCommands, tweakdefsResult,
                                               tweakunitsResult, allocationResult)
            /\ pc' = "built"
            /\ result' = result
    /\ UNCHANGED <<interpolatedCommands, defsPaths, unitsPaths, customTweaks,
                   tweakdefsResult, tweakunitsResult, allocationResult, sectionsResult, lobbySections, pkVars, storeVars, tplVars, edVars>>

\* 7. Group into chunks and return
ReturnResult ==
    /\ pc = "built"
    /\ LET g == groupIntoChunks(allCommands)
       IN IF g.ok
          THEN /\ pc' = "done"
               /\ result' =
                     [status |-> "ok",
                      chunks |-> g.chunks,
                      slotUsage |->
                        [tweakdefs |-> tweakdefsResult.used
                                       + allocationResult.allocated["tweakdefs"],
                         tweakunits |-> tweakunitsResult.used
                                        + allocationResult.allocated["tweakunits"]],
                      droppedCustomTweaks |-> allocationResult.dropped]
          ELSE Fail("commandSize")
    /\ UNCHANGED <<interpolatedCommands, defsPaths, unitsPaths, customTweaks,
                   tweakdefsResult, tweakunitsResult, allocationResult, allCommands,
                   sectionsResult, lobbySections, pkVars, storeVars, tplVars, edVars>>

Next ==
    \/ PackTweakdefs
    \/ PackTweakunits
    \/ AllocateCustomTweaks
    \/ BuildCommands
    \/ ReturnResult

Spec == Init /\ [][Next]_vars

\* ------------------------------------------------------------------------
\* Both entry points called with the same inputs
\* ------------------------------------------------------------------------
GenerateCommandSections ==
    /\ sectionsResult = NoResult
    /\ sectionsResult' = generateCommandSections(interpolatedCommands, defsPaths,
                                                 unitsPaths, customTweaks)
    /\ UNCHANGED <<pc, interpolatedCommands, defsPaths, unitsPaths, customTweaks,
                   tweakdefsResult, tweakunitsResult, allocationResult, allCommands,
                   result, lobbySections, pkVars, storeVars, tplVars, edVars>>

NextSections == Next \/ GenerateCommandSections

SpecSections == Init /\ [][NextSections]_vars

\* ------------------------------------------------------------------------
\* buildLobbySections: the sections built from the configuration's raw
\* commands, its Lua files and the enabled custom tweaks
\* ------------------------------------------------------------------------
\* luaFileMap.get(luaFilePath), a file the bundle lacks being skipped; the
\* sources keep the order of the mapping
LobbySources(paths) ==
    resolveLuaSources(SelectSeq(paths, LAMBDA p : p.base \in DOMAIN luaFileMap
                                                  /\ luaFileMap[p.base].len > 0))

\* allocateCustomTweakSlots(standardBsetCommands, customTweaks): the
\* commands of the tweaks that get a slot
allocateCustomTweakSlots(existingCommands, tweaks) ==
    LET allocation == allocateCustomTweaks(existingCommands,
                                           SelectSeq(tweaks, LAMBDA t : t.enabled))
    IN [i \in 1..Len(allocation.allocations) |-> allocation.allocations[i].command]

\* A command of the list with the part of the list it comes from.
Tagged(commands, origin) ==
    [i \in 1..Len(commands) |-> [command |-> commands[i], origin |-> origin]]

\* the index of the first section with room for the command, 0 when none
FirstSectionWithRoom(sections, cmd) ==
    LET fits == {i \in 1..Len(sections) :
                    sections[i].length + cmd.command.len + 1 <= MAX_COMMAND_LENGTH}
    IN IF fits = {} THEN 0 ELSE CHOOSE i \in fits : \A k \in fits : i <= k

\* One iteration of the grouping loop: the command joins the first section
\* that has room for it, or opens a new one.
SectionStep(sections, cmd) ==
    IF cmd.command.len = 0 THEN sections
    ELSE LET i == FirstSectionWithRoom(sections, cmd)
         IN IF i # 0
            THEN [sections EXCEPT ![i] =
                     [commands |-> Append(@.commands, cmd),
                      length |-> @.length + cmd.command.len + 1]]
            ELSE Append(sections, [commands |-> <<cmd>>, length |-> cmd.command.len])

RECURSIVE SectionLoop(_, _)
SectionLoop(sections, commands) ==
    IF commands = <<>> THEN sections
    ELSE SectionLoop(SectionStep(sections, Head(commands)), Tail(commands))

\* the list buildLobbySections groups: raw commands ('!preset' first), the
\* rename command, the packed slots of both types, the custom tweaks
LobbyAllCommands(commands, defsCommands, unitsCommands, tweaks, rename) ==
    Tagged(SortPresetFirst(commands), "plain")
    \o Tagged(<<rename>>, "rename")
    \o Tagged(defsCommands, "tweakdefs")
    \o Tagged(unitsCommands, "tweakunits")
    \o Tagged(allocateCustomTweakSlots(defsCommands \o unitsCommands, tweaks), "custom")

buildLobbySections(commands, defs, units, tweaks, rename) ==
    LET defsResult == packLuaSourcesIntoSlots(LobbySources(defs), "tweakdefs")
        unitsResult == packLuaSourcesIntoSlots(LobbySources(units), "tweakunits")
        all == LobbyAllCommands(commands, defsResult.commands, unitsResult.commands,
                                tweaks, rename)
        sections == SectionLoop(<<>>, all)
    IN IF ~defsResult.ok THEN [status |-> "error", cause |-> defsResult.error]
       ELSE IF ~unitsResult.ok THEN [status |-> "error", cause |-> unitsResult.error]
       ELSE [status |-> "ok",
             all |-> all,
             sections |-> [i \in 1..Len(sections) |-> sections[i].commands]]

\* buildRenameCommand(configuration) of a configuration without lobby name
LobbyRenameCommand ==
    PlainCommand(FALSE, Len(buildRenameCommand([presetDifficulty |-> <<"E", "a", "s", "y">>,
                                                lobbyName |-> Undefined])))

BuildLobbySections ==
    /\ lobbySections = NoResult
    /\ lobbySections' = buildLobbySections(interpolatedCommands, defsPaths, unitsPaths,
                                           customTweaks, LobbyRenameCommand)
    /\ UNCHANGED <<pc, interpolatedCommands, defsPaths, unitsPaths, customTweaks,
                   tweakdefsResult, tweakunitsResult, allocationResult, allCommands,
                   result, sectionsResult, pkVars, storeVars, tplVars, edVars>>

NextLobby == Next \/ BuildLobbySections

SpecLobby == Init /\ [][NextLobby]_vars

\* ------------------------------------------------------------------------
\* The packer called directly with arbitrary sources, as the tests do
\* ------------------------------------------------------------------------
PackPriorities == {6, 7}
PackKinds ==
    [len : {SmallLen, BigLen, HugeLen}, shape : {"table", "returnTable", "exec"},
     priority : PackPriorities]

PackSource(kind, i) ==
    [path |-> Path(FALSE, "lua/s" \o ToString(i) \o ".lua", FALSE),
     len |-> kind.len, shape |-> kind.shape, desc |-> 12, priority |-> kind.priority]

\* many large sources of one priority: every one needs a slot of its own
FillKind == [len |-> BigLen, shape |-> "exec", priority |-> 6]

InitPack ==
    /\ GenIdle /\ StoreIdle /\ TplIdle /\ EdIdle
    /\ pkPc = "call"
    /\ pkType \in TweakTypes
    /\ \/ \E ks \in SeqsUpTo(PackKinds, MaxPackLen) :
             pkSources = [i \in 1..Len(ks) |-> PackSource(ks[i], i)]
       \/ \E n \in 0..MaxFill, k \in {FillKind, [FillKind EXCEPT !.len = SmallLen]} :
             pkSources = [i \in 1..n |-> PackSource(IF i = 1 THEN k ELSE FillKind, i)]
    /\ pkResult = NotRun /\ pkSlots = NotRun

\* packLuaSources(sources, slotType), and packLuaSourcesIntoSlots on the
\* same sources
CallPacker ==
    /\ pkPc = "call"
    /\ pkResult' = packLuaSources(pkSources, pkType)
    /\ pkSlots' = packLuaSourcesIntoSlots(pkSources, pkType)
    /\ pkPc' = "returned"
    /\ UNCHANGED <<pkSources, pkType, genVars, storeVars, tplVars, edVars>>

NextPack == CallPacker

SpecPack == InitPack /\ [][NextPack]_vars

\* ------------------------------------------------------------------------
\* The custom-tweaks store (CustomTweaksProvider)
\* ------------------------------------------------------------------------
\* A stored tweak is [id, type, priority]; storedEnabledIds is the list of
\* enabled ids; now is the value Date.now() returns to the next addTweak;
\* storedRaw is what local storage holds under the key of the store.
MaxStored == 3           \* stored tweaks
MaxNow == 2              \* calls of addTweak
MaxRaw == 2              \* tweaks in the data found in local storage

Missing == -1            \* a tweak without a priority field
RawTweak(id, idIsNumber, typeIsString, codeIsString, priority) ==
    [isNull |-> FALSE, id |-> id, type |-> "tweakdefs", idIsNumber |-> idIsNumber,
     typeIsString |-> typeIsString, codeIsString |-> codeIsString,
     priority |-> priority]
NullTweak(i) == [RawTweak(i, FALSE, FALSE, FALSE, Missing) EXCEPT !.isNull = TRUE]
RawObject(tweaks, enabledIds) ==
    [kind |-> "object", tweaks |-> tweaks, enabledIds |-> enabledIds]

IsArray(x) == x.isArray
\* variant: every tweak gets its array index as priority
MigrateTweakRenumbers(tweak, index) ==
    [id |-> tweak.id, type |-> tweak.type, priority |-> index]

MigrateTweak(tweak, index) ==
    [id |-> tweak.id, type |-> tweak.type,
     priority |-> IF tweak.priority = Missing THEN index ELSE tweak.priority]

\* the index, counted from 1, of the first tweak the validation loop stops
\* at; 0 when it stops at none
FirstOffending(tweaks) ==
    LET bad(t) == t.isNull
                    \/ ~t.idIsNumber \/ ~t.typeIsString \/ ~t.codeIsString
    IN IF \E i \in 1..Len(tweaks) : bad(tweaks[i])
       THEN CHOOSE i \in 1..Len(tweaks) :
               bad(tweaks[i]) /\ \A j \in 1..(i - 1) : ~bad(tweaks[j])
       ELSE 0

\* typeof of a property of null raises a TypeError
validateAndMigrateStoredData(stored) ==
    IF stored.kind # "object" THEN [outcome |-> "null"]
    ELSE IF ~IsArray(stored.tweaks) \/ ~IsArray(stored.enabledIds)
    THEN [outcome |-> "null"]
    ELSE LET tweaks == stored.tweaks.items
             k == FirstOffending(tweaks)
         IN IF k > 0
            THEN IF tweaks[k].isNull
                 THEN [outcome |-> "throws"]
                 ELSE [outcome |-> "null"]
            ELSE [outcome |-> "data",
                  tweaks |-> [i \in 1..Len(tweaks) |-> MigrateTweak(tweaks[i], i - 1)],
                  enabledIds |-> stored.enabledIds.items]

StoredPriorities == {storedTweaks[i].priority : i \in 1..Len(storedTweaks)}
MaxOf(S) == CHOOSE x \in S : \A y \in S : y <= x

\* tweaks.toSorted((a, b) => a.priority - b.priority)
SortByPriority(tweaks) == SortLoop(<<>>, tweaks)

\* sorted.findIndex((t) => t.id === id), counted from 1; 0 when not found
FindIndex(sorted, id) ==
    IF \E i \in 1..Len(sorted) : sorted[i].id = id
    THEN CHOOSE i \in 1..Len(sorted) :
            sorted[i].id = id /\ \A j \in 1..(i - 1) : sorted[j].id # id
    ELSE 0

\* variant: only the first of the two elements gets a new priority
SwapPrioritiesOneWay(sorted, i, j) ==
    [sorted EXCEPT ![i] = [@ EXCEPT !.priority = sorted[j].priority]]

\* the two elements keep their places in the sorted copy and exchange
\* their priority fields
SwapPriorities(sorted, i, j) ==
    [sorted EXCEPT ![i] = [@ EXCEPT !.priority = sorted[j].priority],
                   ![j] = [@ EXCEPT !.priority = sorted[i].priority]]

\* the updater moveTweakUp hands to setStoredData
MoveUp(tweaks, id) ==
    LET sorted == SortByPriority(tweaks)
        index == FindIndex(sorted, id)
    IN IF index <= 1 THEN tweaks ELSE SwapPriorities(sorted, index - 1, index)

\* the updater moveTweakDown hands to setStoredData
MoveDown(tweaks, id) ==
    LET sorted == SortByPriority(tweaks)
        index == FindIndex(sorted, id)
    IN IF index = 0 \/ index >= Len(sorted)
       THEN tweaks
       ELSE SwapPriorities(sorted, index + 1, index)

\* the tweak addTweak builds from the customTweaks of the last render
NewTweak(id, type, rendered) ==
    [id |-> id, type |-> type,
     priority |-> IF Len(rendered) > 0
                  THEN MaxOf({rendered[i].priority : i \in 1..Len(rendered)}) + 1
                  ELSE 0]

RawTweaks(i) ==
    {RawTweak(i, TRUE, TRUE, TRUE, p) : p \in {Missing, 0, 1}}
    \cup {RawTweak(i, FALSE, TRUE, TRUE, 0), RawTweak(i, TRUE, FALSE, TRUE, 0),
          RawTweak(i, TRUE, TRUE, FALSE, 0), NullTweak(i)}
RawTweakLists ==
    {ts \in SeqsUpTo(UNION {RawTweaks(i) : i \in 1..MaxRaw}, MaxRaw) :
        \A i \in 1..Len(ts) : ts[i].id = i}
RawStored ==
    {NoData, [NoData EXCEPT !.kind = "notObject"],
     RawObject(NotArray, Array(<<>>)), RawObject(Array(<<>>), NotArray)}
    \cup {RawObject(Array(ts), Array(e)) : ts \in RawTweakLists, e \in {<<>>, <<1>>, <<2, 1>>}}

Loaded == isLoaded /\ storedRaw = Written

InitStore ==
    /\ GenIdle /\ PkIdle /\ TplIdle /\ EdIdle
    /\ storedRaw \in RawStored /\ isLoaded = FALSE /\ lastCall = NoCall
    /\ storedTweaks = <<>> /\ storedEnabledIds = <<>> /\ now = MaxRaw + 1

\* useLocalStorage reads the key and hands the value to onLoad; the default
\* stays when the key is absent or onLoad does not return data
loadStoredData ==
    /\ ~isLoaded
    /\ LET r == IF storedRaw.kind = "absent"
                THEN [outcome |-> "null"]
                ELSE validateAndMigrateStoredData(storedRaw)
       IN IF r.outcome = "data"
          THEN storedTweaks' = r.tweaks /\ storedEnabledIds' = r.enabledIds
          ELSE storedTweaks' = <<>> /\ storedEnabledIds' = <<>>
    /\ isLoaded' = TRUE
    /\ UNCHANGED <<storedRaw, now, lastCall, genVars, pkVars, tplVars, edVars>>

\* the effect that runs once loading has finished: setStoredData(storedData)
persistMigrated ==
    /\ isLoaded /\ storedRaw # Written
    /\ storedRaw' = Written
    /\ UNCHANGED <<storedTweaks, storedEnabledIds, isLoaded, now, lastCall, genVars, pkVars, tplVars, edVars>>

addTweak(type) ==
    /\ Loaded
    /\ Len(storedTweaks) < MaxStored /\ now <= MaxRaw + MaxNow
    /\ storedTweaks' = Append(storedTweaks, NewTweak(now, type, storedTweaks))
    /\ now' = now + 1
    /\ lastCall' = Call("addTweak", now, 0)
    /\ UNCHANGED <<storedEnabledIds, storedRaw, isLoaded, genVars, pkVars, tplVars, edVars>>

\* two calls of addTweak from one event handler: the second call still sees
\* the customTweaks of the render before the first
addTweakTwice(type) ==
    /\ Loaded
    /\ Len(storedTweaks) + 1 < MaxStored /\ now + 1 <= MaxRaw + MaxNow
    /\ storedTweaks' = storedTweaks \o <<NewTweak(now, type, storedTweaks),
                                         NewTweak(now + 1, type, storedTweaks)>>
    /\ now' = now + 2
    /\ lastCall' = Call("addTweak", now + 1, 0)
    /\ UNCHANGED <<storedEnabledIds, storedRaw, isLoaded, genVars, pkVars, tplVars, edVars>>

\* variant: the id stays in enabledIds
deleteTweakKeepsEnabled(id) ==
    /\ Loaded
    /\ storedTweaks' = SelectSeq(storedTweaks, LAMBDA t : t.id # id)
    /\ storedEnabledIds' = storedEnabledIds
    /\ lastCall' = Call("deleteTweak", id, FindIndex(storedTweaks, id))
    /\ UNCHANGED <<now, storedRaw, isLoaded, genVars, pkVars, tplVars, edVars>>

deleteTweak(id) ==
    /\ Loaded
    /\ storedTweaks' = SelectSeq(storedTweaks, LAMBDA t : t.id # id)
    /\ storedEnabledIds' = SelectSeq(storedEnabledIds, LAMBDA e : e # id)
    /\ lastCall' = Call("deleteTweak", id, FindIndex(storedTweaks, id))
    /\ UNCHANGED <<now, storedRaw, isLoaded, genVars, pkVars, tplVars, edVars>>

toggleTweak(id) ==
    /\ Loaded
    /\ storedEnabledIds' =
          IF id \in Range(storedEnabledIds)
          THEN SelectSeq(storedEnabledIds, LAMBDA e : e # id)
          ELSE Append(storedEnabledIds, id)
    /\ lastCall' = Call("toggleTweak", id, 0)
    /\ UNCHANGED <<storedTweaks, now, storedRaw, isLoaded, genVars, pkVars, tplVars, edVars>>

moveTweakUp(id) ==
    /\ Loaded
    /\ storedTweaks' = MoveUp(storedTweaks, id)
    /\ lastCall' = Call("moveTweakUp", id, FindIndex(SortByPriority(storedTweaks), id))
    /\ UNCHANGED <<storedEnabledIds, now, storedRaw, isLoaded, genVars, pkVars, tplVars, edVars>>

moveTweakDown(id) ==
    /\ Loaded
    /\ storedTweaks' = MoveDown(storedTweaks, id)
    /\ lastCall' = Call("moveTweakDown", id, FindIndex(SortByPriority(storedTweaks), id))
    /\ UNCHANGED <<storedEnabledIds, now, storedRaw, isLoaded, genVars, pkVars, tplVars, edVars>>

\* customTweaks.filter((tweak) => enabledIds.has(tweak.id))
getEnabledTweaks == SelectSeq(storedTweaks, LAMBDA t : t.id \in Range(storedEnabledIds))

\* the rows of the saved-tweaks list
sortedTweaks == SortByPriority(storedTweaks)

\* the ids the user interface can hand to a callback: those of the rows
StoredIds == {storedTweaks[i].id : i \in 1..Len(storedTweaks)}

\* the ids a caller of the context can hand to a callback: those of the
\* rows, those in enabledIds, and one that is in neither
NoId == 0
CallerIds == StoredIds \cup Range(storedEnabledIds) \cup {NoId}

\* the type the form hands to addTweak
AddedTypes == {"tweakunits"}

NextStore ==
    \/ loadStoredData
    \/ persistMigrated
    \/ \E type \in AddedTypes : addTweak(type)
    \/ \E type \in AddedTypes : addTweakTwice(type)
    \/ \E id \in CallerIds : deleteTweak(id)
    \/ \E id \in StoredIds : toggleTweak(id)
    \/ \E id \in CallerIds : moveTweakUp(id)
    \/ \E id \in CallerIds : moveTweakDown(id)

SpecStore == InitStore /\ [][NextStore]_vars

\* The callbacks that change the stored tweaks, on the tweaks and enabled
\* ids that the load found.
NextTweaks ==
    \/ loadStoredData
    \/ persistMigrated
    \/ \E type \in AddedTypes : addTweak(type)
    \/ \E type \in AddedTypes : addTweakTwice(type)
    \/ \E id \in CallerIds : deleteTweak(id)
    \/ \E id \in CallerIds : moveTweakUp(id)
    \/ \E id \in CallerIds : moveTweakDown(id)

SpecTweaks == InitStore /\ [][NextTweaks]_vars

\* ------------------------------------------------------------------------
\* The template engine called directly, and the rename command
\* ------------------------------------------------------------------------
MaxTokens == 2           \* tokens of a template
MaxInner == 2            \* tokens inside an optional section
MaxName == 4             \* characters of a lobby name

TemplateNames == {<<"a">>, <<"b">>}
PlainTokens ==
    {TextToken(<<"x">>), TextToken(<<" ">>)} \cup {VarToken(n) : n \in TemplateNames}
InnerTokens == {TextToken(<<"x">>)} \cup {VarToken(n) : n \in TemplateNames}
TemplateTokens ==
    PlainTokens
    \cup {OptionalToken(inner) : inner \in SeqsUpTo(InnerTokens, MaxInner) \ {<<>>}}
TemplateValues == {Undefined, <<>>, <<"v">>, <<"$", "b", "$">>}

InitTemplate ==
    /\ GenIdle /\ PkIdle /\ StoreIdle /\ EdIdle
    /\ tplPc = "ready"
    /\ tplTokens \in SeqsUpTo(TemplateTokens, MaxTokens)
    /\ \E values \in [TemplateNames -> TemplateValues] :
          tplContext = [n \in {m \in TemplateNames : values[m] # Undefined} |-> values[n]]
    /\ tplResult = NotInterpolated
    /\ configuration = NoConfiguration /\ renameCommand = NotBuilt

\* interpolateCommandTemplate(template, context)
Interpolate ==
    /\ tplPc = "ready"
    /\ tplResult' = interpolateCommandTemplate(RenderTokens(tplTokens), tplContext)
    /\ tplPc' = "done"
    /\ UNCHANGED <<tplTokens, tplContext, configuration, renameCommand,
                   genVars, pkVars, storeVars, edVars>>

NextTemplate == Interpolate

SpecTemplate == InitTemplate /\ [][NextTemplate]_vars

\* The configurations: a preset difficulty and a lobby name as typed, the
\* other settings at their defaults.
Difficulties == {<<"E", "a", "s", "y">>, <<"M", "e", "d", "i", "u", "m">>, <<"H", "a", "r", "d">>}
LobbyNames == SeqsUpTo({" ", "a", "$"}, MaxName) \cup {Undefined}
Configuration(difficulty, name) ==
    [presetDifficulty |-> difficulty, lobbyName |-> name,
     challenges |-> <<"M", "i", "n", "i", " ", "B", "o", "s", "s", "e", "s">>,
     gameMap |-> 
       <<"F", "u", "l", "l", " ", "M", "e", "t", "a", "l", " ", "P", "l",
         "a", "t", "e", " ", "(", "1", "2", "P", ")">>,
     start |-> <<"N", "o", " ", "r", "u", "s", "h">>,
     isMegaNuke |-> <<"f", "a", "l", "s", "e">>,
     incomeMult |-> <<"1">>, buildDistMult |-> <<"1", ".", "5">>,
     buildPowerMult |-> <<"1">>, queenCount |-> <<"8">>]

InitRename ==
    /\ GenIdle /\ PkIdle /\ StoreIdle /\ EdIdle
    /\ tplPc = "config"
    /\ \E d \in Difficulties, n \in LobbyNames : configuration = Configuration(d, n)
    /\ tplTokens = <<>> /\ tplContext = <<>>
    /\ tplResult = NotInterpolated /\ renameCommand = NotBuilt

\* const context = buildTemplateContext(config), ahead of the rename template
BuildContext ==
    /\ tplPc = "config"
    /\ tplContext' = buildTemplateContext(configuration)
    /\ tplTokens' = RenameTemplate
    /\ tplPc' = "ready"
    /\ UNCHANGED <<tplResult, configuration, renameCommand, genVars, pkVars, storeVars, edVars>>

BuildRename ==
    /\ renameCommand = NotBuilt
    /\ renameCommand' = buildRenameCommand(configuration)
    /\ UNCHANGED <<tplPc, tplTokens, tplContext, tplResult, configuration,
                   genVars, pkVars, storeVars, edVars>>

NextRename ==
    \/ BuildContext
    \/ Interpolate
    \/ BuildRename

SpecRename == InitRename /\ [][NextRename]_vars

\* ------------------------------------------------------------------------
\* The editor tab: the lists it shows and its selection
\* ------------------------------------------------------------------------
\* The files of the lua/ folder and the slots of the current compilation,
\* by path and by slot name.
FileLists == {<<>>, <<"lua/main.lua">>, <<"lua/main.lua", "lua/units.lua">>, <<"lua/units.lua">>}
SlotLists ==
    {<<>>, <<"tweakdefs">>, <<"tweakdefs", "tweakdefs1">>, <<"tweakdefs", "tweakunits">>,
     <<"tweakdefs", "tweakdefs1", "tweakunits">>}

\* The component mounts with nothing selected; both effects run after the
\* first render.
InitEditor ==
    /\ GenIdle /\ PkIdle /\ StoreIdle /\ TplIdle
    /\ luaFolderFiles \in FileLists /\ slotContents \in SlotLists
    /\ selectedFile = NoSelection /\ selectedSlot = NoSelection
    /\ pendingEffects = {"file", "slot"}

\* the effect with dependencies [selectedFile, luaFolderFiles]
SelectFirstFile ==
    /\ "file" \in pendingEffects
    /\ IF selectedFile = NoSelection /\ Len(luaFolderFiles) > 0
       THEN /\ selectedFile' = luaFolderFiles[1]
            /\ pendingEffects' = pendingEffects
       ELSE /\ selectedFile' = selectedFile
            /\ pendingEffects' = pendingEffects \ {"file"}
    /\ UNCHANGED <<luaFolderFiles, slotContents, selectedSlot,
                   genVars, pkVars, storeVars, tplVars>>

\* the effect with dependencies [selectedSlot, slotContents]
SelectFirstSlot ==
    /\ "slot" \in pendingEffects
    /\ IF selectedSlot = NoSelection /\ Len(slotContents) > 0
       THEN /\ selectedSlot' = slotContents[1]
            /\ pendingEffects' = pendingEffects
       ELSE /\ selectedSlot' = selectedSlot
            /\ pendingEffects' = pendingEffects \ {"slot"}
    /\ UNCHANGED <<luaFolderFiles, slotContents, selectedFile,
                   genVars, pkVars, storeVars, tplVars>>

\* onSelectFile={setSelectedFile}: a click on a file of the sidebar
SetSelectedFile(path) ==
    /\ path # selectedFile
    /\ selectedFile' = path
    /\ pendingEffects' = pendingEffects \cup {"file"}
    /\ UNCHANGED <<luaFolderFiles, slotContents, selectedSlot,
                   genVars, pkVars, storeVars, tplVars>>

\* onSelectSlot={setSelectedSlot}: a click on a slot of the sidebar
SetSelectedSlot(slotName) ==
    /\ slotName # selectedSlot
    /\ selectedSlot' = slotName
    /\ pendingEffects' = pendingEffects \cup {"slot"}
    /\ UNCHANGED <<luaFolderFiles, slotContents, selectedFile,
                   genVars, pkVars, storeVars, tplVars>>

\* the luaFiles prop changes: luaFolderFiles is computed again
LuaFilesChange(files) ==
    /\ files # luaFolderFiles
    /\ luaFolderFiles' = files
    /\ pendingEffects' = pendingEffects \cup {"file"}
    /\ UNCHANGED <<slotContents, selectedFile, selectedSlot,
                   genVars, pkVars, storeVars, tplVars>>

\* the configuration or the enabled custom tweaks change: useSlotContents
\* computes the slots again
SlotContentsChange(slots) ==
    /\ slots # slotContents
    /\ slotContents' = slots
    /\ pendingEffects' = pendingEffects \cup {"slot"}
    /\ UNCHANGED <<luaFolderFiles, selectedFile, selectedSlot,
                   genVars, pkVars, storeVars, tplVars>>

NextEditor ==
    \/ SelectFirstFile
    \/ SelectFirstSlot
    \/ \E path \in Range(luaFolderFiles) : SetSelectedFile(path)
    \/ \E slotName \in Range(slotContents) : SetSelectedSlot(slotName)
    \/ \E files \in FileLists : LuaFilesChange(files)
    \/ \E slots \in SlotLists : SlotContentsChange(slots)

SpecEditor == InitEditor /\ [][NextEditor]_vars

\* ------------------------------------------------------------------------
\* Reading a result
\* ------------------------------------------------------------------------
Done == pc = "done"

ResultCommands == Flatten(result.chunks)

IsBset(c) == c.type \in TweakTypes
IsCustomSource(s) == "custom" \in DOMAIN s
IsCustomCommand(c) ==
    /\ c.slot # NoSlot
    /\ \E i \in 1..Len(c.slot.sources) : IsCustomSource(c.slot.sources[i])

CommandsOfType(t) == SelectSeq(ResultCommands, LAMBDA c : c.type = t)
PackedCommandsOfType(t) ==
    SelectSeq(ResultCommands, LAMBDA c : c.type = t /\ ~IsCustomCommand(c))
CustomCommandsOfType(t) ==
    SelectSeq(ResultCommands, LAMBDA c : c.type = t /\ IsCustomCommand(c))

\* the source paths of the packed slots of one type, in output order
RecoveredSources(t) ==
    LET cmds == PackedCommandsOfType(t)
    IN Flatten([i \in 1..Len(cmds) |-> cmds[i].slot.sources])

\* the priority the test looks up for a recovered path
ManifestPriority(path) ==
    IF path.base \in DOMAIN LUA_PRIORITIES
    THEN LUA_PRIORITIES[path.base]
    ELSE DEFAULT_LUA_PRIORITY

NonDecreasing(s) == \A i \in 1..(Len(s) - 1) : s[i] <= s[i + 1]

EnabledTweaks == SelectSeq(customTweaks, LAMBDA t : t.enabled)

\* '!bset <slot> <code>' of a custom tweak: every index 1..9 is one digit
Oversized(t) == 6 + Len(t.type) + 1 + 1 + t.codeLen > MAX_SLOT_SIZE

ChunkLength(chunk) ==
    SumSeq([i \in 1..Len(chunk) |-> chunk[i].command.len]) + (Len(chunk) - 1)

\* ------------------------------------------------------------------------
\* Claims
\* ------------------------------------------------------------------------

\* C1: in a successful result, for each tweak type, the priorities looked up
\* for the source paths of the packed slots, read in output order, never
\* decrease.
C1_PriorityOrder ==
    Done => \A t \in TweakTypes :
        LET srcs == RecoveredSources(t)
        IN NonDecreasing([i \in 1..Len(srcs) |-> ManifestPriority(srcs[i])])

C1_Witness ==
    /\ Done
    /\ Len(defsPaths) >= 2
    /\ ManifestPriority(defsPaths[1]) > ManifestPriority(defsPaths[2])
    /\ \E i \in 1..Len(defsPaths) : defsPaths[i].suffix
    /\ Len(RecoveredSources("tweakdefs")) = Len(defsPaths)

\* C2: in a successful result no chunk is empty and the commands of every
\* chunk, joined by newlines, are at most MAX_CHUNK_SIZE characters long.
C2_ChunkSize ==
    Done => \A i \in 1..Len(result.chunks) :
        /\ Len(result.chunks[i]) > 0
        /\ ChunkLength(result.chunks[i]) <= MAX_CHUNK_SIZE

C2_Witness ==
    /\ Done
    /\ Len(result.chunks) >= 3
    /\ \E i \in 1..Len(result.chunks) : Len(result.chunks[i]) >= 2

\* C3: in a successful result the number of slot commands of each tweak
\* type, packed and custom together, and the reported slotUsage, are at most
\* MAX_SLOTS_PER_TYPE.
C3_SlotBudget ==
    Done => \A t \in TweakTypes :
        /\ Len(CommandsOfType(t)) <= MAX_SLOTS_PER_TYPE
        /\ result.slotUsage[t] <= MAX_SLOTS_PER_TYPE

C3_Witness ==
    /\ Done
    /\ \E t \in TweakTypes :
          /\ Len(CommandsOfType(t)) = MAX_SLOTS_PER_TYPE
          /\ Len(PackedCommandsOfType(t)) >= 1
          /\ Len(CustomCommandsOfType(t)) >= 1
          /\ \E i \in 1..Len(result.droppedCustomTweaks) :
                result.droppedCustomTweaks[i].type = t

\* the source handed to the packer under a path
PackedSource(path) == CHOOSE x \in Range(pkSources) : x.path = path
PlainTableShape(source) == source.shape # "exec"

\* C4: packing tweakunits, a plain-table source (a bare table literal, with
\* or without 'return') is alone in its slot, whatever the sizes and
\* priorities; two sources of which one is a plain table give two slots.
C4_PlainTableIsolation ==
    (pkPc = "returned" /\ pkType = "tweakunits" /\ pkResult.ok) =>
        /\ \A i \in 1..Len(pkResult.commands) :
              LET srcs == pkResult.commands[i].slot.sources
              IN (\E j \in 1..Len(srcs) : PlainTableShape(PackedSource(srcs[j])))
                    => Len(srcs) = 1
        /\ \A k \in 1..Len(pkSources) :
              \E i \in 1..Len(pkResult.commands) :
                 pkSources[k].path \in Range(pkResult.commands[i].slot.sources)
        /\ (Len(pkSources) = 2 /\ \E k \in 1..2 : PlainTableShape(pkSources[k]))
              => Len(pkResult.commands) = 2

C4_Witness ==
    /\ pkPc = "returned" /\ pkType = "tweakunits" /\ pkResult.ok
    /\ Len(pkSources) = 2
    /\ pkSources[1].shape = "returnTable" /\ pkSources[2].shape = "exec"
    /\ pkSources[1].priority = pkSources[2].priority
    /\ pkSources[1].len = SmallLen /\ pkSources[2].len = SmallLen
    /\ Len(pkResult.commands) = 2

\* C5: sources that may share a slot (tweakdefs sources, executable
\* tweakunits sources) are packed into one slot whenever their summed
\* estimated size is within TARGET_SLOT_SIZE, whatever their priorities.
Shareable ==
    pkType = "tweakdefs" \/ \A k \in 1..Len(pkSources) : ~PlainTableShape(pkSources[k])
EstimateOfAll ==
    SumSeq([k \in 1..Len(pkSources) |-> wrapInIIFE(pkSources[k]) * OVERHEAD_NUM])

C5_MergeWithinTarget ==
    (/\ pkPc = "returned"
     /\ Len(pkSources) >= 1
     /\ Shareable
     /\ EstimateOfAll <= TARGET_SLOT_SIZE * OVERHEAD_DEN)
        => /\ Len(pkSlots.commands) = 1
           /\ Len(pkResult.commands) = 1

\* C6: an enabled custom tweak whose command would exceed MAX_SLOT_SIZE is
\* listed unchanged in droppedCustomTweaks and in no command, every command
\* of the result is within the size ceiling, and an error raised by
\* generateCommands is never due to that tweak.
C6_OversizedDropped ==
    /\ Done =>
          /\ \A i \in 1..Len(EnabledTweaks) :
                Oversized(EnabledTweaks[i]) =>
                   /\ EnabledTweaks[i] \in Range(result.droppedCustomTweaks)
                   /\ \A k \in 1..Len(ResultCommands) :
                         ResultCommands[k].slot # NoSlot =>
                            [custom |-> EnabledTweaks[i].id]
                               \notin Range(ResultCommands[k].slot.sources)
          /\ \A k \in 1..Len(ResultCommands) :
                ResultCommands[k].command.len <= MAX_CHUNK_SIZE
    /\ (pc = "error" /\ result.cause = "commandSize") =>
          \E k \in 1..Len(interpolatedCommands) :
             interpolatedCommands[k].len > MAX_SLOT_SIZE
    /\ (pc = "error" /\ result.cause = "decode") =>
          \E i \in 1..Len(EnabledTweaks) :
             ~EnabledTweaks[i].decodable /\ ~Oversized(EnabledTweaks[i])

C6_Witness ==
    /\ Done
    /\ \E i \in 1..Len(EnabledTweaks) :
          /\ Oversized(EnabledTweaks[i])
          /\ EnabledTweaks[i] \in Range(result.droppedCustomTweaks)
    /\ Len(CustomCommandsOfType("tweakdefs")) >= 1
    /\ Len(PackedCommandsOfType("tweakdefs")) >= 1

\* the slot indices of the packed commands of one type, from their slot records
PackedIndices(t) ==
    LET r == IF t = "tweakdefs" THEN tweakdefsResult ELSE tweakunitsResult
    IN {r.commands[i].slot.index : i \in 1..Len(r.commands)}

\* enabled tweaks of the type of t, ahead of t in the stored order, that fit
FittingBefore(t) ==
    {i \in 1..Len(EnabledTweaks) :
        /\ EnabledTweaks[i].id < t.id
        /\ EnabledTweaks[i].type = t.type
        /\ ~Oversized(EnabledTweaks[i])}

NoFreeIndexFor(t) ==
    Cardinality(FittingBefore(t)) >= Cardinality((1..9) \ PackedIndices(t.type))

AllocationsOfType(t) ==
    SelectSeq(allocationResult.allocations, LAMBDA a : a.tweak.type = t)

\* C7: the dropped tweaks are exactly the enabled tweaks that are oversized
\* or find no free index; the other tweaks get the allocation they would get
\* with the dropped tweaks absent from the input, and the per-type counts
\* count the allocations only.
C7_DropReleases ==
    Done =>
        LET dropped == result.droppedCustomTweaks
            kept == SelectSeq(EnabledTweaks, LAMBDA t : t \notin Range(dropped))
        IN /\ \A i \in 1..Len(EnabledTweaks) :
                 EnabledTweaks[i] \in Range(dropped)
                    <=> (Oversized(EnabledTweaks[i]) \/ NoFreeIndexFor(EnabledTweaks[i]))
           /\ allocateCustomTweaks(ExistingBsetCommands, kept).allocations
                 = allocationResult.allocations
           /\ \A t \in TweakTypes :
                 allocationResult.allocated[t] = Len(AllocationsOfType(t))

C7_Witness ==
    /\ Done
    /\ \E i \in 1..Len(allocationResult.allocations) :
          LET a == allocationResult.allocations[i]
          IN /\ \E j \in 1..Len(result.droppedCustomTweaks) :
                   /\ result.droppedCustomTweaks[j].id < a.tweak.id
                   /\ result.droppedCustomTweaks[j].type = a.tweak.type
                   /\ Oversized(result.droppedCustomTweaks[j])
             /\ \E j \in 1..(i - 1) :
                   allocationResult.allocations[j].tweak.type = a.tweak.type
    /\ \E j \in 1..Len(result.droppedCustomTweaks) :
          ~Oversized(result.droppedCustomTweaks[j])

\* C8: an allocated custom tweak has the lowest index of 1..9 used neither
\* by a packed slot of its type nor by an earlier allocated tweak of its
\* type, a fitting tweak is dropped only when no such index is left, no
\* custom tweak has index 0, and the !bset commands of one type carry
\* pairwise different slot indices and slot names.
TakenBefore(t, id) ==
    PackedIndices(t)
    \cup {allocationResult.allocations[j].slotIndex :
            j \in {k \in 1..Len(allocationResult.allocations) :
                      /\ allocationResult.allocations[k].tweak.type = t
                      /\ allocationResult.allocations[k].tweak.id < id}}

C8_LowestFreeIndex ==
    Done =>
        /\ \A i \in 1..Len(allocationResult.allocations) :
              LET a == allocationResult.allocations[i]
                  taken == TakenBefore(a.tweak.type, a.tweak.id)
              IN /\ a.slotIndex \in 1..9
                 /\ a.slotIndex \notin taken
                 /\ \A k \in 1..(a.slotIndex - 1) : k \in taken
        /\ \A j \in 1..Len(result.droppedCustomTweaks) :
              LET d == result.droppedCustomTweaks[j]
              IN ~Oversized(d) => (1..9) \subseteq TakenBefore(d.type, d.id)
        /\ \A t \in TweakTypes :
              LET cmds == CommandsOfType(t)
              IN /\ \A i \in 1..Len(cmds) :
                       IsCustomCommand(cmds[i]) => cmds[i].slot.index # 0
                 /\ \A i, j \in 1..Len(cmds) :
                       i # j => /\ cmds[i].slot.index # cmds[j].slot.index
                                /\ cmds[i].command.name # cmds[j].command.name

C8_Witness ==
    /\ Done
    /\ \E t \in TweakTypes :
          /\ Len(PackedCommandsOfType(t)) >= 3
          /\ Len(CustomCommandsOfType(t)) >= 2
          /\ \E j \in 1..Len(result.droppedCustomTweaks) :
                /\ result.droppedCustomTweaks[j].type = t
                /\ ~Oversized(result.droppedCustomTweaks[j])

\* C9: in a result a command has a slot record exactly when its type is
\* tweakdefs or tweakunits, a command of type 'command' has none, and no
\* command string is empty.
C9_SlotIffTweakType ==
    Done => \A k \in 1..Len(ResultCommands) :
        LET c == ResultCommands[k]
        IN /\ c.type \in TweakTypes \cup {"command"}
           /\ (c.slot # NoSlot) <=> (c.type \in TweakTypes)
           /\ c.type = "command" => c.slot = NoSlot
           /\ c.command.len > 0

C9_Witness ==
    /\ Done
    /\ \E k \in 1..Len(ResultCommands) : ResultCommands[k].type = "command"
    /\ Len(PackedCommandsOfType("tweakdefs")) >= 1
    /\ Len(PackedCommandsOfType("tweakunits")) >= 1
    /\ \E t \in TweakTypes : Len(CustomCommandsOfType(t)) >= 1

\* C10: slotUsage of each tweak type equals the number of commands of that
\* type in the result, also when custom tweaks are allocated and dropped.
C10_SlotUsageCounts ==
    Done => \A t \in TweakTypes : result.slotUsage[t] = Len(CommandsOfType(t))

C10_Witness ==
    /\ Done
    /\ \E t \in TweakTypes :
          /\ Len(CustomCommandsOfType(t)) >= 1
          /\ Len(PackedCommandsOfType(t)) >= 1
          /\ result.slotUsage[t] = Len(CommandsOfType(t))
          /\ \E j \in 1..Len(result.droppedCustomTweaks) :
                /\ result.droppedCustomTweaks[j].type = t
                /\ Oversized(result.droppedCustomTweaks[j])

CustomCommands == SelectSeq(ResultCommands, IsCustomCommand)
PlainCommands == SelectSeq(ResultCommands, LAMBDA c : c.type = "command")
CustomId(c) == c.slot.sources[1].custom
Occurrences(x, s) == Cardinality({i \in 1..Len(s) : s[i] = x})

\* C11: the chunks of a successful result, read in order, give the plain
\* commands, then the packed tweakdefs commands in ascending slot index, then
\* the packed tweakunits commands in ascending slot index, then the commands
\* of the allocated custom tweaks in input order; it is the command list
\* that was built, with nothing dropped, duplicated or reordered.
C11_OutputOrder ==
    Done =>
        /\ ResultCommands = allCommands
        /\ ResultCommands = PlainCommands
                             \o PackedCommandsOfType("tweakdefs")
                             \o PackedCommandsOfType("tweakunits")
                             \o CustomCommands
        /\ Len(PlainCommands) = Len(interpolatedCommands)
        /\ \A k \in 1..Len(interpolatedCommands) :
              Occurrences(interpolatedCommands[k], interpolatedCommands)
                 = Occurrences(interpolatedCommands[k],
                               [i \in 1..Len(PlainCommands) |-> PlainCommands[i].command])
        /\ PackedCommandsOfType("tweakdefs") = tweakdefsResult.commands
        /\ PackedCommandsOfType("tweakunits") = tweakunitsResult.commands
        /\ \A t \in TweakTypes :
              LET cmds == PackedCommandsOfType(t)
              IN \A i \in 1..(Len(cmds) - 1) : cmds[i].slot.index < cmds[i + 1].slot.index
        /\ Len(CustomCommands) = Len(allocationResult.allocations)
        /\ \A i \in 1..(Len(CustomCommands) - 1) :
              CustomId(CustomCommands[i]) < CustomId(CustomCommands[i + 1])
        /\ {CustomId(CustomCommands[i]) : i \in 1..Len(CustomCommands)}
              = {EnabledTweaks[i].id : i \in 1..Len(EnabledTweaks)}
                   \ {result.droppedCustomTweaks[i].id :
                          i \in 1..Len(result.droppedCustomTweaks)}

C11_Witness ==
    /\ Done
    /\ Len(result.chunks) >= 4
    /\ Len(PlainCommands) >= 2
    /\ Len(PackedCommandsOfType("tweakdefs")) >= 2
    /\ Len(PackedCommandsOfType("tweakunits")) >= 2
    /\ Len(CustomCommands) >= 2
    /\ CustomCommands[1].type = "tweakunits" /\ CustomCommands[2].type = "tweakdefs"

PlainStrings == [i \in 1..Len(PlainCommands) |-> PlainCommands[i].command]

\* C12: among the plain commands of a successful result every '!preset'
\* command precedes every other command, and the '!preset' commands and the
\* other commands each keep the order the mapper produced them in.
C12_PresetFirstStable ==
    Done =>
        /\ \A i, j \in 1..Len(PlainStrings) :
              (i < j /\ PlainStrings[j].preset) => PlainStrings[i].preset
        /\ SelectSeq(PlainStrings, LAMBDA c : c.preset)
              = SelectSeq(interpolatedCommands, LAMBDA c : c.preset)
        /\ SelectSeq(PlainStrings, LAMBDA c : ~c.preset)
              = SelectSeq(interpolatedCommands, LAMBDA c : ~c.preset)

C12_Witness ==
    /\ Done
    /\ interpolatedCommands = MixedPlain
    /\ PlainStrings # interpolatedCommands
    /\ PlainStrings[1].len = 13 /\ PlainStrings[2].len = 14
    /\ PlainStrings[3].len = 12 /\ PlainStrings[4].len = 40

\* C13: after any sequence of addTweak, deleteTweak, toggleTweak, moveTweakUp
\* and moveTweakDown, getEnabledTweaks lists the enabled tweaks in ascending
\* priority, which is the order of the rows of the saved-tweaks list.
C13_EnabledInPriorityOrder ==
    /\ \A i \in 1..(Len(getEnabledTweaks) - 1) :
          getEnabledTweaks[i].priority < getEnabledTweaks[i + 1].priority
    /\ getEnabledTweaks
          = SelectSeq(sortedTweaks, LAMBDA t : t.id \in Range(storedEnabledIds))

PackerReturned == pkPc = "returned"
SlotsNeeded == Len(AllSlotContents(pkSources))
SlotCommandLength(slot, index) ==
    6 + Len(pkType) + (IF index = 0 THEN 0 ELSE 1) + 1 + EncodedLen(SlotContentLen(slot))
SomeSlotTooLong ==
    \E i \in 1..SlotsNeeded :
       SlotCommandLength(AllSlotContents(pkSources)[i], i - 1) > MAX_COMMAND_LENGTH

\* C14: packLuaSourcesIntoSlots raises an error and returns no command when
\* the sources need more than MAX_SLOTS_PER_TYPE slots or when a slot
\* command is longer than MAX_COMMAND_LENGTH; otherwise it returns one
\* command per slot, named in slot order with the indices 0..n-1, the name
\* of index 0 being the bare tweak type.
C14_FailsLoudly ==
    PackerReturned =>
        IF SlotsNeeded > MAX_SLOTS_PER_TYPE \/ SomeSlotTooLong
        THEN ~pkSlots.ok /\ pkSlots.commands = <<>>
        ELSE /\ pkSlots.ok
             /\ Len(pkSlots.commands) = SlotsNeeded
             /\ pkSlots.used = SlotsNeeded
             /\ \A i \in 1..Len(pkSlots.commands) :
                   /\ pkSlots.commands[i].kind = "bset"
                   /\ pkSlots.commands[i].name.base = pkType
                   /\ pkSlots.commands[i].name.suffix
                         = IF i = 1 THEN <<>> ELSE <<i - 1>>

C14_Witness ==
    /\ PackerReturned
    /\ SlotsNeeded = MAX_SLOTS_PER_TYPE + 1
    /\ ~SomeSlotTooLong
    /\ ~pkSlots.ok /\ pkSlots.error = "slots" /\ pkSlots.commands = <<>>

Interpolated == tplPc = "done"

\* the names of the placeholders outside every optional section, in order
RECURSIVE TopLevelNames(_)
TopLevelNames(tokens) ==
    IF tokens = <<>> THEN <<>>
    ELSE (IF Head(tokens).kind = "var" THEN <<Head(tokens).name>> ELSE <<>>)
         \o TopLevelNames(Tail(tokens))

HasValue(name) == name \in DOMAIN tplContext /\ tplContext[name] # <<>>
MissingTopLevel ==
    {k \in 1..Len(TopLevelNames(tplTokens)) : ~HasValue(TopLevelNames(tplTokens)[k])}

\* text and placeholders with every placeholder replaced by its value
RECURSIVE Substituted(_)
Substituted(tokens) ==
    IF tokens = <<>> THEN <<>>
    ELSE (IF Head(tokens).kind = "var" THEN tplContext[Head(tokens).name]
          ELSE Head(tokens).text)
         \o Substituted(Tail(tokens))

SectionKept(section) ==
    \A k \in 1..Len(section.inner) :
       section.inner[k].kind = "var" => HasValue(section.inner[k].name)

\* the text a template stands for when no required variable is missing
RECURSIVE ExpectedText(_)
ExpectedText(tokens) ==
    IF tokens = <<>> THEN <<>>
    ELSE LET t == Head(tokens)
         IN (CASE t.kind = "text" -> t.text
               [] t.kind = "var" -> tplContext[t.name]
               [] t.kind = "optional" ->
                     IF SectionKept(t) THEN Substituted(t.inner) ELSE <<>>)
            \o ExpectedText(Tail(tokens))

\* C15: interpolateCommandTemplate raises the missing-variable error, naming
\* the variable, whenever a placeholder outside every optional section has
\* no value or the empty string; when every such placeholder has a
\* non-empty value no error is raised and every occurrence is replaced by
\* the value (the text then being whitespace-normalised).
C15_RequiredVariables ==
    Interpolated =>
        IF MissingTopLevel # {}
        THEN /\ ~tplResult.ok
             /\ \E k \in MissingTopLevel : tplResult.missing = TopLevelNames(tplTokens)[k]
        ELSE /\ tplResult.ok
             /\ tplResult.text = NormalizeWhitespace(ExpectedText(tplTokens))

\* C16: an optional section is kept, its delimiters removed and its
\* placeholders replaced by their values, exactly when every variable in it
\* has a non-empty value, and is removed otherwise, each section on its own;
\* a variable without a value that occurs only inside optional sections
\* never makes the interpolation raise the missing-variable error.
C16_OptionalSections ==
    Interpolated =>
        /\ ~tplResult.ok =>
              \E k \in MissingTopLevel : tplResult.missing = TopLevelNames(tplTokens)[k]
        /\ tplResult.ok =>
              tplResult.text = NormalizeWhitespace(ExpectedText(tplTokens))

\* the lobby name of the configuration with leading and trailing blanks
\* removed, empty when none is set
TrimmedLobbyName ==
    IF configuration.lobbyName = Undefined THEN <<>>
    ELSE LET n == configuration.lobbyName
             first == CHOOSE i \in 1..(Len(n) + 1) :
                         (i = Len(n) + 1 \/ n[i] # " ") /\ \A k \in 1..(i - 1) : n[k] = " "
             last == CHOOSE j \in 0..Len(n) :
                        (j = 0 \/ n[j] # " ") /\ \A k \in (j + 1)..Len(n) : n[k] = " "
         IN IF first > last THEN <<>> ELSE SubSeq(n, first, last)

ExpectedRename ==
    RenamePrefix \o configuration.presetDifficulty \o <<"]">>
    \o (IF TrimmedLobbyName = <<>> THEN <<>>
        ELSE <<" ", "[">> \o TrimmedLobbyName \o <<"]">>)

\* C17: for every preset difficulty d and lobby name n the rename command is
\* '!rename Community NuttyB [d]' when n trimmed is empty and
\* '!rename Community NuttyB [d] [t]' with t the trimmed n otherwise, both as
\* the rename template interpolated against buildTemplateContext and as
\* buildRenameCommand builds it.
C17_RenameExact ==
    /\ (configuration # NoConfiguration /\ Interpolated) =>
          tplResult.ok /\ tplResult.text = ExpectedRename
    /\ (configuration # NoConfiguration /\ renameCommand # NotBuilt) =>
          renameCommand = ExpectedRename

\* the length of the payload of a '!bset <slotname> <payload>' command
PayloadLen(c) == c.command.len - (6 + SlotNameLen(c.command.name) + 1)
BsetCommands == SelectSeq(ResultCommands, IsBset)
TweakOf(c) == CHOOSE t \in Range(customTweaks) : t.id = CustomId(c)

BothReturned == pc \in {"done", "error"} /\ sectionsResult # NoResult
ResultStrings == [i \in 1..Len(ResultCommands) |-> ResultCommands[i].command]

\* C19: for the same commands, Lua paths and custom tweaks, whenever
\* generateCommands returns a result generateCommandSections returns one
\* too, its sections hold the same sequence of command strings as the
\* chunks, and the used-slot counts per type and the dropped custom tweaks
\* are the same.
C19_SameCompilation ==
    (BothReturned /\ result.status = "ok") =>
        /\ sectionsResult.status = "ok"
        /\ Flatten(sectionsResult.sections) = ResultStrings
        /\ sectionsResult.slotUsage = result.slotUsage
        /\ sectionsResult.droppedCustomTweaks = result.droppedCustomTweaks

\* ------------------------------------------------------------------------
\* C20
\* ------------------------------------------------------------------------
InBundle(path) == path.base \in DOMAIN luaFileMap
MappedPaths(t) == IF t = "tweakdefs" THEN defsPaths ELSE unitsPaths
PackingOf(t) == IF t = "tweakdefs" THEN tweakdefsResult ELSE tweakunitsResult
WithoutMissing(paths) == SelectSeq(paths, InBundle)

\* C20: a mapped Lua path that the bundle does not hold contributes
\* nothing: the packing of each type is the packing of the mapped paths
\* with the missing ones left out (the same slots, or the same error), and
\* no slot of the result names a missing path among its sources.
C20_MissingContributesNothing ==
    /\ \A t \in TweakTypes :
          PackingOf(t) # NotRun =>
              PackingOf(t) = packLuaSources(
                                 sortLua(resolveLuaSources(WithoutMissing(MappedPaths(t)))), t)
    /\ Done =>
          \A t \in TweakTypes : \A i \in 1..Len(RecoveredSources(t)) :
              InBundle(RecoveredSources(t)[i])

\* ------------------------------------------------------------------------
\* C21
\* ------------------------------------------------------------------------
TweakWithId(tweaks, id) == CHOOSE t \in Range(tweaks) : t.id = id
IdsOf(tweaks) == {tweaks[i].id : i \in 1..Len(tweaks)}

\* the stored tweaks after the step are those before it, with the priority
\* fields of the rows i and j of the priority order exchanged and every
\* other field kept
PrioritiesExchanged(i, j) ==
    /\ Len(storedTweaks') = Len(storedTweaks)
    /\ IdsOf(storedTweaks') = StoredIds
    /\ \A t \in Range(storedTweaks) :
          LET after == TweakWithId(storedTweaks', t.id)
          IN /\ after.type = t.type
             /\ after.priority = IF t.id = sortedTweaks[i].id
                                 THEN sortedTweaks[j].priority
                                 ELSE IF t.id = sortedTweaks[j].id
                                 THEN sortedTweaks[i].priority
                                 ELSE t.priority

MoveUpEffect(id) ==
    LET index == FindIndex(sortedTweaks, id)
    IN /\ storedEnabledIds' = storedEnabledIds
       /\ IF index > 1
          THEN PrioritiesExchanged(index, index - 1)
          ELSE storedTweaks' = storedTweaks

MoveDownEffect(id) ==
    LET index == FindIndex(sortedTweaks, id)
    IN /\ storedEnabledIds' = storedEnabledIds
       /\ IF index > 0 /\ index < Len(sortedTweaks)
          THEN PrioritiesExchanged(index, index + 1)
          ELSE storedTweaks' = storedTweaks

\* C21: every step of moveTweakUp(id) exchanges the priorities of the tweak
\* id and the tweak before it in priority order, every step of
\* moveTweakDown(id) those of the tweak id and the tweak after it; the other
\* fields, the ids of the stored tweaks and the enabled ids stay, and at the
\* first row (up), the last row (down) or for an id that no tweak has the
\* stored tweaks stay as they are.
C21_MoveExchangesPriorities ==
    [][\A id \in CallerIds :
          /\ moveTweakUp(id) => MoveUpEffect(id)
          /\ moveTweakDown(id) => MoveDownEffect(id)]_vars

\* a move that found its tweak at a row with a neighbour has run
C21_Witness ==
    /\ Len(storedTweaks) = MaxStored
    /\ storedEnabledIds # <<>>
    /\ \/ lastCall.op = "moveTweakUp" /\ lastCall.index > 1
       \/ lastCall.op = "moveTweakDown" /\ lastCall.index \in 1..(Len(storedTweaks) - 1)

\* ------------------------------------------------------------------------
\* C22
\* ------------------------------------------------------------------------
\* the tweaks and the enabled ids with another id than id stay, each with
\* its fields and in its place relative to the others, and id is gone
DeleteEffect(id) ==
    /\ id \notin IdsOf(storedTweaks') /\ id \notin Range(storedEnabledIds')
    /\ storedTweaks' = SelectSeq(storedTweaks, LAMBDA t : t.id # id)
    /\ storedEnabledIds' = SelectSeq(storedEnabledIds, LAMBDA e : e # id)

\* C22 as stated: a step of deleteTweak(id) removes id from the stored
\* tweaks and from enabledIds and keeps the rest, and for an id that no
\* stored tweak has it changes nothing.
C22_DeleteRemovesOnlyId ==
    [][\A id \in CallerIds :
          deleteTweak(id) =>
              /\ DeleteEffect(id)
              /\ id \notin StoredIds =>
                    UNCHANGED <<storedTweaks, storedEnabledIds>>]_vars

\* C22, amended: a step of deleteTweak(id) removes id from the stored tweaks
\* and from enabledIds and keeps the rest; the stored tweaks stay as they
\* are when no tweak has the id, and enabledIds stays as it is when the id
\* is not in it.
C22_DeleteRemovesId ==
    [][\A id \in CallerIds :
          deleteTweak(id) =>
              /\ DeleteEffect(id)
              /\ id \notin StoredIds => storedTweaks' = storedTweaks
              /\ id \notin Range(storedEnabledIds) =>
                    storedEnabledIds' = storedEnabledIds]_vars

\* a stored and enabled tweak was deleted, and another one is still stored
\* and enabled
C22_Witness ==
    /\ lastCall.op = "deleteTweak" /\ lastCall.index > 0
    /\ lastCall.id \in 1..MaxRaw
    /\ \E i \in 1..Len(storedTweaks) : storedTweaks[i].id \in Range(storedEnabledIds)

\* ------------------------------------------------------------------------
\* C23
\* ------------------------------------------------------------------------
JustLoaded == isLoaded /\ storedRaw # Written

WellTyped(t) == ~t.isNull /\ t.idIsNumber /\ t.typeIsString /\ t.codeIsString
StructurallyValid(raw) ==
    /\ raw.kind = "object"
    /\ raw.tweaks.isArray /\ raw.enabledIds.isArray
    /\ \A i \in 1..Len(raw.tweaks.items) : WellTyped(raw.tweaks.items[i])

C26_PrioritiesDistinct ==
    \A i \in 1..Len(storedTweaks) : \A j \in 1..Len(storedTweaks) :
        i # j => storedTweaks[i].priority # storedTweaks[j].priority

\* ------------------------------------------------------------------------
\* C30
\* ------------------------------------------------------------------------
PriorityOf(tweaks) == [id \in IdsOf(tweaks) |-> TweakWithId(tweaks, id).priority]

\* C30: for a stored tweak that is not first in priority order moveTweakUp
\* followed by moveTweakDown gives every stored tweak the priority it had,
\* and so does moveTweakDown followed by moveTweakUp for a tweak that is
\* not last.
C30_MovesUndoEachOther ==
    Loaded =>
        \A id \in StoredIds :
            LET index == FindIndex(sortedTweaks, id)
            IN /\ index > 1 =>
                     PriorityOf(MoveDown(MoveUp(storedTweaks, id), id))
                        = PriorityOf(storedTweaks)
               /\ index < Len(sortedTweaks) =>
                     PriorityOf(MoveUp(MoveDown(storedTweaks, id), id))
                        = PriorityOf(storedTweaks)

\* the priorities of the sources wrapped into one slot
SlotPriorities(slot) == {slot[j].priority : j \in 1..Len(slot)}
SlotEstimate(slot) == SumSeq([j \in 1..Len(slot) |-> EstimatedEncoded(slot[j])])
SlotsReturned == pkPc = "returned" /\ pkSlots.ok

AllocatedTweaks ==
    {allocationResult.allocations[i].tweak : i \in 1..Len(allocationResult.allocations)}

\* C27: generateCommands never raises because of the code of an enabled
\* custom tweak: whatever string the code is, the call does not end in the
\* decode error, and a returned result has every enabled custom tweak
\* either allocated or listed in droppedCustomTweaks.
C27_NoRaiseOnTweakCode ==
    /\ pc = "error" => result.cause # "decode"
    /\ Done => \A i \in 1..Len(EnabledTweaks) :
                  \/ EnabledTweaks[i] \in AllocatedTweaks
                  \/ EnabledTweaks[i] \in Range(result.droppedCustomTweaks)

\* C28: a '$name$'-shaped substring of a substituted value is not itself a
\* placeholder: for every lobby name the interpolation of the rename
\* template raises no missing-variable error and the lobby name appears in
\* the command as typed (trimmed, runs of whitespace collapsed with the
\* rest of the text), no part of it replaced by another value.
C28_ValuesVerbatim ==
    (configuration # NoConfiguration /\ Interpolated) =>
        /\ tplResult.ok
        /\ tplResult.text = NormalizeWhitespace(ExpectedRename)

LobbyReturned == lobbySections # NoResult /\ lobbySections.status = "ok"
LobbyOutput == Flatten(lobbySections.sections)
OriginRank(origin) ==
    CASE origin \in {"plain", "rename"} -> 0
      [] origin = "tweakdefs" -> 1
      [] origin = "tweakunits" -> 2
      [] origin = "custom" -> 3

\* C25: the output of buildLobbySections, read section by section and
\* command by command, is the list of commands in generation order: every
\* tweakdefs slot command before every tweakunits slot command, the slots
\* of one type in ascending index order, the custom-tweak commands last.
C25_SectionsKeepOrder ==
    LobbyReturned =>
        /\ LobbyOutput = lobbySections.all
        /\ \A k \in 1..Len(LobbyOutput) : \A l \in (k + 1)..Len(LobbyOutput) :
              /\ OriginRank(LobbyOutput[k].origin) <= OriginRank(LobbyOutput[l].origin)
              /\ (LobbyOutput[k].origin = LobbyOutput[l].origin
                  /\ LobbyOutput[k].origin \in TweakTypes)
                    => SlotRegexNum(LobbyOutput[k].command)
                          < SlotRegexNum(LobbyOutput[l].command)

EffectsHaveRun == pendingEffects = {}

\* C24: once the selection effects have run, the selected slot names a slot
\* of slotContents whenever slotContents is not empty, and the selected
\* file a file of luaFolderFiles whenever that list is not empty.
C24_SelectionIsPresent ==
    EffectsHaveRun =>
        /\ Len(slotContents) > 0 => selectedSlot \in Range(slotContents)
        /\ Len(luaFolderFiles) > 0 => selectedFile \in Range(luaFolderFiles)

====
